---- MODULE Spec2Model ----
(***************************************************************************)
(* Model of the brokerage-note pipeline of trade_parser.py:                *)
(* prepare_files_for_processing (page tagging and splitting),              *)
(* TradeProcessor.process_pdfs (per-document parsing) and                  *)
(* TradeProcessor.process_directory (aggregation and reconciliation).      *)
(*                                                                         *)
(* Conventions.                                                            *)
(*  - A token of a text line is a sequence of one-character strings, so    *)
(*    that the numeric conversions are computed character by character.    *)
(*  - A money amount is an integer number of thousandths (mills); a        *)
(*    rounded difference is an integer number of cents.                    *)
(*  - Text is written in ASCII: accented letters of the source's labels    *)
(*    are written without their accent.                                    *)
(***************************************************************************)
EXTENDS Integers, Sequences, FiniteSets, TLC

\* ------------------------------------------------------------------------
\* Bounds of the model
\* ------------------------------------------------------------------------

\* Pages of one batch (all files of the directory together), pipeline runs.
MaxBatchPages == 3

\* Pages of the single file of the splitting runs.
MaxTagPages == 4

\* Pages of the single document of the extraction runs.
MaxDocPages == 2

\* The most rows of the trades and of the summaries in the reconciliation
\* runs.
MaxTableRows == 2

\* The most lines of the text in the classification runs.
MaxTextLines == 3

\* ------------------------------------------------------------------------
\* Characters and numeric conversion
\* ------------------------------------------------------------------------

Digits == {"0", "1", "2", "3", "4", "5", "6", "7", "8", "9"}

DigitVal(c) ==
    CASE c = "0" -> 0 [] c = "1" -> 1 [] c = "2" -> 2 [] c = "3" -> 3
      [] c = "4" -> 4 [] c = "5" -> 5 [] c = "6" -> 6 [] c = "7" -> 7
      [] c = "8" -> 8 [] c = "9" -> 9

\* str.replace(c, ''): every occurrence of character c removed.
RemoveChar(s, c) == SelectSeq(s, LAMBDA x : x # c)

\* str.replace(a, b) for single characters.
ReplaceChar(s, a, b) == [i \in 1..Len(s) |-> IF s[i] = a THEN b ELSE s[i]]

IsDigits(s) == \A i \in 1..Len(s) : s[i] \in Digits

RECURSIVE DigitsValue(_)
DigitsValue(s) ==
    IF s = <<>> THEN 0
    ELSE 10 * DigitsValue(SubSeq(s, 1, Len(s) - 1)) + DigitVal(s[Len(s)])

\* A leading sign of a Python numeric literal.
HasSign(s) == Len(s) > 0 /\ s[1] \in {"-", "+"}
Unsigned(s) == IF HasSign(s) THEN Tail(s) ELSE s
SignOf(s) == IF Len(s) > 0 /\ s[1] = "-" THEN -1 ELSE 1

\* int(s) of Python for a string of sign and decimal digits; ok = FALSE
\* stands for ValueError.
IntOf(sign, u) ==
    IF Len(u) > 0 /\ IsDigits(u)
    THEN [ok |-> TRUE, val |-> sign * DigitsValue(u)]
    ELSE [ok |-> FALSE, val |-> 0]

PyInt(s) == IntOf(SignOf(s), Unsigned(s))

\* The fraction digits of a literal, as thousandths (digits after the third
\* are dropped: the model's tokens carry at most three).
FracMills(f) ==
    LET p == f \o <<"0", "0", "0">>
    IN  DigitsValue(SubSeq(p, 1, 3))

\* float(s) of Python, in mills, for a string of sign, digits and at most
\* one "."; ok = FALSE stands for ValueError.
FloatOf(sign, u) ==
    LET d  == IF \E i \in 1..Len(u) : u[i] = "."
              THEN CHOOSE i \in 1..Len(u) : u[i] = "." ELSE Len(u) + 1
        ip == SubSeq(u, 1, d - 1)
        fp == SubSeq(u, d + 1, Len(u))
    IN  IF IsDigits(ip) /\ IsDigits(fp) /\ Len(ip) + Len(fp) > 0
        THEN [ok |-> TRUE, val |-> sign * (1000 * DigitsValue(ip) + FracMills(fp))]
        ELSE [ok |-> FALSE, val |-> 0]

PyFloat(s) == FloatOf(SignOf(s), Unsigned(s))

\* The except branch of _clean_numeric: 0.0 when float() raises.
ValueOr0(r) == IF r.ok THEN r.val ELSE 0

\* GenericParser._clean_numeric: '.' removed, ',' replaced by '.', float().
clean_numeric(value) ==
    ValueOr0(PyFloat(ReplaceChar(RemoveChar(value, "."), ",", ".")))

Abs(x) == IF x < 0 THEN -x ELSE x

\* ------------------------------------------------------------------------
\* Text
\* ------------------------------------------------------------------------
\* A line is [txt, toks]: txt is the wording of the line (a marker, a table
\* header, a row of summary labels, or "" when the line holds tokens only)
\* and toks are the whitespace-separated tokens that follow it.
\* A page is [date, sigs, invoice, lines]; a file is [name, readable, pages].

tStart    == "Negocios realizados"
tStartAg  == "Negocios Realizados (no accent)"
tResumoDos == "Resumo dos Negocios"
tResumoDe == "Resumo de negocios"
tHeader   == "Q Negociacao C/V Tipo mercado Especificacao do titulo Quantidade Preco/Ajuste Valor Operacao/Ajuste D/C"
tBmfHeader == "C/V Mercadoria Vencimento Quantidade Preco/Ajuste Tipo Negocio Vlr de Operacao/Ajuste D/C Taxa Operacional"
tBmfL0    == "Venda disponivel Compra disponivel Venda Opcoes Compra Opcoes Valor dos negocios"
tBmfL1    == "IRRF IRRF Day Trade (proj.) Taxa operacional Taxa registro BM&F Taxas BM&F (emol+f.gar)"
tBmfL2    == "Outros Custos ISS Ajuste de posicao Ajuste day trade Total das despesas"
tBmfL3    == "Outros IRRF Corretagem Total Conta Investimento Total Conta Normal Total liquido (#) Total liquido da nota"
tValorOp  == "Valor das operacoes"
tCorretagem == "Corretagem"
tLiquido  == "Liquido para"
tVencimento == "data de vencimento"
tAjustePos == "ajuste de posicao"

\* The phrases of classify_invoice_type found in
\* remove_accents(txt.lower()).
NormPhrases(txt) ==
    CASE txt \in {tStart, tStartAg} -> {"negocios realizados"}
      [] txt = tResumoDos -> {"resumo dos negocios"}
      [] txt = tBmfHeader ->
            {"c/v mercadoria vencimento", "c/v mercadoria", "vencimento"}
      [] txt = tBmfL1 -> {"irrf day trade"}
      [] txt = tBmfL2 -> {"ajuste de posicao", "ajuste day trade"}
      [] txt = tVencimento -> {"vencimento"}
      [] txt = tAjustePos -> {"ajuste de posicao"}
      [] OTHER -> {}

LinesOf(pages) ==
    LET RECURSIVE cat(_)
        cat(i) == IF i > Len(pages) THEN <<>>
                  ELSE pages[i].lines \o cat(i + 1)
    IN  cat(1)

\* The phrases found in a text given as its lines.
TextPhrases(lines) == UNION {NormPhrases(lines[i].txt) : i \in 1..Len(lines)}

\* A classification that takes for spot only a text without any of the
\* five terms "ajuste day trade", "taxa registro bmf", "irrf day trade",
\* "vencimento", "c/v mercadoria".
ClassifyExcludingFiveTerms(lines) ==
    LET normalized == TextPhrases(lines)
        five == {"ajuste day trade", "taxa registro bmf", "irrf day trade",
                 "vencimento", "c/v mercadoria"}
    IN  IF (\E x \in {"negocios realizados", "resumo dos negocios",
                      "negocios efetuados"} : x \in normalized)
           /\ five \cap normalized = {}
        THEN "avista"
        ELSE IF (five \cup {"ajuste de posicao"}) \cap normalized # {}
        THEN "bmf"
        ELSE "unknown"

\* A classification whose fallback knows the five terms only.
ClassifyFiveFallbackTerms(lines) ==
    LET normalized == TextPhrases(lines)
    IN  IF (\E x \in {"negocios realizados", "resumo dos negocios",
                      "negocios efetuados"} : x \in normalized)
           /\ ~("c/v mercadoria" \in normalized)
        THEN "avista"
        ELSE IF "c/v mercadoria vencimento" \in normalized
                /\ "ajuste de posicao" \in normalized
        THEN "bmf"
        ELSE IF {"ajuste day trade", "taxa registro bmf", "irrf day trade",
                 "vencimento", "c/v mercadoria"} \cap normalized # {}
        THEN "bmf"
        ELSE "unknown"

\* classify_invoice_type. The terms spelled "Mercadoria" in the source's
\* lists never occur in the lower-cased text and are left out.
classify_invoice_type(lines) ==
    LET normalized == TextPhrases(lines)
    IN  IF (\E x \in {"negocios realizados", "resumo dos negocios",
                      "negocios efetuados"} : x \in normalized)
           /\ ~("c/v mercadoria" \in normalized)
        THEN "avista"
        ELSE IF "c/v mercadoria vencimento" \in normalized
                /\ "ajuste de posicao" \in normalized
        THEN "bmf"
        ELSE IF \E term \in {"ajuste de posicao", "ajuste day trade",
                             "taxa registro bmf", "irrf day trade",
                             "vencimento", "c/v mercadoria"} :
                   term \in normalized
        THEN "bmf"
        ELSE "unknown"

\* ------------------------------------------------------------------------
\* Splitter
\* ------------------------------------------------------------------------

\* found_date = None
NoDate == 0

\* extract_date_and_type_per_page: one <<found_date, tipo>> per page.
extract_date_and_type_per_page(file) ==
    [i \in 1..Len(file.pages) |->
        <<file.pages[i].date, classify_invoice_type(file.pages[i].lines)>>]

\* A grouping that starts a new group at every retained page.
GroupEveryPage(date_type_pairs) ==
    LET kept == SelectSeq([i \in 1..Len(date_type_pairs) |-> i],
                          LAMBDA i : /\ date_type_pairs[i][1] # NoDate
                                     /\ date_type_pairs[i][2] # "unknown")
    IN  [g \in 1..Len(kept) |->
            [key |-> date_type_pairs[kept[g]], pages |-> <<kept[g]>>]]

\* A grouping that puts all the retained pages of a key into one group,
\* the groups in the order of the first page of their key.
GroupMergingKeys(date_type_pairs) ==
    LET kept == SelectSeq([i \in 1..Len(date_type_pairs) |-> i],
                          LAMBDA i : /\ date_type_pairs[i][1] # NoDate
                                     /\ date_type_pairs[i][2] # "unknown")
        firsts == SelectSeq(kept,
                      LAMBDA i : \A j \in 1..(i - 1) :
                                    date_type_pairs[j] # date_type_pairs[i])
    IN  [g \in 1..Len(firsts) |->
            [key |-> date_type_pairs[firsts[g]],
             pages |-> SelectSeq(kept,
                           LAMBDA i : date_type_pairs[i]
                                         = date_type_pairs[firsts[g]])]]

\* group_pages_by_date_and_type; current_key = None is <<>>, and pages are
\* numbered from 1 (the source numbers them from 0).
RECURSIVE GroupLoop(_, _, _, _, _)
GroupLoop(pairs, i, groups, current_key, current_pages) ==
    IF i > Len(pairs)
    THEN IF current_pages # <<>>
         THEN Append(groups, [key |-> current_key, pages |-> current_pages])
         ELSE groups
    ELSE IF pairs[i][1] = NoDate \/ pairs[i][2] = "unknown"
    THEN GroupLoop(pairs, i + 1, groups, current_key, current_pages)
    ELSE IF pairs[i] # current_key
    THEN GroupLoop(pairs, i + 1,
                   IF current_pages # <<>>
                   THEN Append(groups, [key |-> current_key,
                                        pages |-> current_pages])
                   ELSE groups,
                   pairs[i], <<i>>)
    ELSE GroupLoop(pairs, i + 1, groups, current_key, Append(current_pages, i))

\* A grouping that does not append the group still open when the pages
\* end.
GroupWithoutLastFlush(date_type_pairs) ==
    SubSeq(GroupLoop(date_type_pairs, 1, <<>>, <<>>, <<>>), 1,
           Len(GroupLoop(date_type_pairs, 1, <<>>, <<>>, <<>>)) - 1)

group_pages_by_date_and_type(date_type_pairs) ==
    GroupLoop(date_type_pairs, 1, <<>>, <<>>, <<>>)

\* unique_keys of prepare_files_for_processing.
unique_keys(date_type_pairs) ==
    {date_type_pairs[i] : i \in {j \in 1..Len(date_type_pairs) :
        date_type_pairs[j][1] # NoDate /\ date_type_pairs[j][2] # "unknown"}}

\* The path of a file of the processed directory.
SourcePath(file) == [dir |-> "upload", name |-> <<file.name, NoDate, "">>]

\* new_filename / out_path of prepare_files_for_processing: the source's
\* base name, the group's date and its kind tag.
SplitPath(file, key) ==
    [dir |-> "split_by_date_temp", name |-> <<file.name, key[1], key[2]>>]

\* The paths prepare_files_for_processing appends for one file.
PathsOf(file, pairs, groups) ==
    IF Cardinality(unique_keys(pairs)) <= 1
    THEN <<SourcePath(file)>>
    ELSE [g \in 1..Len(groups) |-> SplitPath(file, groups[g].key)]

FilePaths(file) ==
    PathsOf(file, extract_date_and_type_per_page(file),
            group_pages_by_date_and_type(extract_date_and_type_per_page(file)))

\* The pages a PdfWriter is given for one group.
GroupPages(file, group) ==
    [k \in 1..Len(group.pages) |-> file.pages[group.pages[k]]]

\* A file opened for appending: the writer's pages follow what the file at
\* out_path held before.
WriteFileAppending(disk, out_path, pages) ==
    [n \in DOMAIN disk \cup {out_path} |->
        IF n # out_path THEN disk[n]
        ELSE IF n \in DOMAIN disk THEN disk[n] \o pages ELSE pages]

\* open(out_path, "wb") and writer.write(f): the file at out_path holds
\* the writer's pages, whatever it held before.
WriteFile(disk, out_path, pages) ==
    [n \in DOMAIN disk \cup {out_path} |-> IF n = out_path THEN pages ELSE disk[n]]

\* The split directory after the files of one source file are written, in
\* group order.
RECURSIVE WriteGroups(_, _, _, _)
WriteGroups(disk, file, groups, g) ==
    IF g > Len(groups) THEN disk
    ELSE WriteGroups(WriteFile(disk, SplitPath(file, groups[g].key).name,
                               GroupPages(file, groups[g])),
                     file, groups, g + 1)

\* The split directory after prepare_files_for_processing handled file.
DiskAfter(disk, file) ==
    LET pairs == extract_date_and_type_per_page(file)
    IN  IF Cardinality(unique_keys(pairs)) <= 1 THEN disk
        ELSE WriteGroups(disk, file, group_pages_by_date_and_type(pairs), 1)


\* ------------------------------------------------------------------------
\* Broker profiles
\* ------------------------------------------------------------------------

\* TradeProcessor.PARSERS, in table order (the config names).
PARSERS == <<"BTG", "ITAU", "AGORA", "XP">>

\* config.trade_start_marker found in a line (re.IGNORECASE; AGORA's marker
\* is spelled without the accent).
IsStartMarker(broker, txt) ==
    IF broker = "AGORA" THEN txt = tStartAg ELSE txt = tStart

\* config.trade_end_marker found in a line.
IsEndMarker(broker, txt) ==
    IF broker = "ITAU" THEN txt = tResumoDe ELSE txt = tResumoDos

\* ------------------------------------------------------------------------
\* Tokens of a line
\* ------------------------------------------------------------------------

\* A word of a line's wording: a token that is no number and begins with
\* neither C nor D.
Word == <<"w">>

\* The first word of a wording.
FirstWord(txt) ==
    CASE txt = tCorretagem ->
            <<"C", "o", "r", "r", "e", "t", "a", "g", "e", "m">>
      [] txt = tBmfHeader -> <<"C", "/", "V">>
      [] OTHER -> Word

NWords(txt) ==
    CASE txt = "" -> 0
      [] txt = tCorretagem -> 1
      [] txt \in {tStart, tLiquido} -> 2
      [] txt \in {tResumoDos, tResumoDe, tValorOp, tVencimento, tAjustePos} -> 3
      [] OTHER -> 9

\* line.strip().split()
Tokens(line) ==
    [i \in 1..NWords(line.txt) |-> IF i = 1 THEN FirstWord(line.txt) ELSE Word]
    \o line.toks

\* not line.strip()
IsBlank(line) == line.txt = "" /\ line.toks = <<>>

\* "resumo" in line.lower()
HasResumo(line) == line.txt \in {tResumoDos, tResumoDe}

\* The expected_labels of GenericParser._extract_trades found in
\* line.lower().
HdrLabels(line) ==
    CASE line.txt = tHeader ->
            {"negociacao", "c/v", "tipo", "quantidade", "preco", "valor"}
      [] line.txt = tBmfHeader -> {"c/v", "tipo", "quantidade", "preco"}
      [] line.txt \in {tValorOp, tBmfL0} -> {"valor"}
      [] OTHER -> {}

\* re.match(r"\d{2}/\d{2}/\d{4}", ...) at position i of a token.
DateAt(tok, i) ==
    /\ i + 9 <= Len(tok)
    /\ \A k \in {0, 1, 3, 4, 6, 7, 8, 9} : tok[i + k] \in Digits
    /\ tok[i + 2] = "/" /\ tok[i + 5] = "/"

\* Python's tokens[-k], for k <= len(tokens).
FromEnd(tokens, k) == tokens[Len(tokens) + 1 - k]

\* The fields no extractor of a trade's kind sets (NaN in the data frame).
NoTok == <<>>

\* ------------------------------------------------------------------------
\* Trade extraction
\* ------------------------------------------------------------------------

\* The fields of a trade line of a spot note whose quantity is qty.
SpotFields(tokens, agora, qty) ==
    IF ~qty.ok THEN [ok |-> FALSE]
    ELSE [ok |-> TRUE,
          trade |-> [
            Tipo        |-> "A Vista",
            Negociacao  |-> IF agora THEN SubSeq(tokens, 1, 2) ELSE <<tokens[1]>>,
            CV          |-> IF agora THEN tokens[4] ELSE tokens[2],
            TipoMercado |-> IF agora THEN tokens[5] ELSE tokens[3],
            Titulo      |-> IF agora
                            THEN SubSeq(tokens, 6, IF Len(tokens) < 7 THEN Len(tokens) ELSE 7)
                            ELSE SubSeq(tokens, 4, IF Len(tokens) < 5 THEN Len(tokens) ELSE 5),
            Vencimento  |-> NoTok,
            Quantidade  |-> qty.val,
            Preco       |-> clean_numeric(FromEnd(tokens, 3)),
            TipoNegocio |-> NoTok,
            Valor       |-> clean_numeric(FromEnd(tokens, 2)),
            DC          |-> FromEnd(tokens, 1),
            TaxaOperacional |-> 0]]

SpotTokens(parser_name, tokens) ==
    IF parser_name \notin {"XP", "BTG", "ITAU", "AGORA"} THEN [ok |-> FALSE]
    ELSE IF Len(tokens) < (IF parser_name = "AGORA" THEN 5 ELSE 4) THEN [ok |-> FALSE]
    ELSE SpotFields(tokens, parser_name = "AGORA",
                    PyInt(RemoveChar(RemoveChar(FromEnd(tokens, 4), "."), ",")))

\* One line of the trade table of a spot note; ok = FALSE when the line
\* raises (IndexError, ValueError) or the profile has no layout.
SpotTrade(parser_name, line) == SpotTokens(parser_name, Tokens(line))

\* A two-line window holding at least 4 of the 6 expected labels.
IsHeaderAt(lines, i) ==
    Cardinality(HdrLabels(lines[i]) \cup HdrLabels(lines[i + 1])) >= 4

\* The index after the table header of a block: after the first window
\* that is a header; 0 when there is none.
HeaderIdx(lines) ==
    IF \A i \in 1..(Len(lines) - 1) : ~IsHeaderAt(lines, i) THEN 0
    ELSE (CHOOSE i \in 1..(Len(lines) - 1) :
              /\ IsHeaderAt(lines, i)
              /\ \A j \in 1..(i - 1) : ~IsHeaderAt(lines, j)) + 2

\* The trade of a line that gave one.
OkTrade(r) == IF r.ok THEN <<r.trade>> ELSE <<>>

\* A reading of the table that stops at the first line that raises.
RECURSIVE BlockTradesUntilError(_, _, _)
BlockTradesUntilError(parser_name, lines, i) ==
    IF i > Len(lines) \/ IsBlank(lines[i]) \/ HasResumo(lines[i]) THEN <<>>
    ELSE IF ~SpotTrade(parser_name, lines[i]).ok THEN <<>>
    ELSE <<SpotTrade(parser_name, lines[i]).trade>>
         \o BlockTradesUntilError(parser_name, lines, i + 1)

\* The trades of the lines from index i of a block, up to the first blank
\* line or line holding "resumo".
RECURSIVE BlockTrades(_, _, _)
BlockTrades(parser_name, lines, i) ==
    IF i > Len(lines) \/ IsBlank(lines[i]) \/ HasResumo(lines[i]) THEN <<>>
    ELSE OkTrade(SpotTrade(parser_name, lines[i]))
         \o BlockTrades(parser_name, lines, i + 1)

\* A block that holds the line of the start marker alone when no end marker
\* follows it.
BlockEndAtMarkerOnly(broker, lines, i) ==
    IF \A j \in i..Len(lines) : ~IsEndMarker(broker, lines[j].txt) THEN i
    ELSE (CHOOSE j \in i..Len(lines) :
              /\ IsEndMarker(broker, lines[j].txt)
              /\ \A k \in i..(j - 1) : ~IsEndMarker(broker, lines[k].txt)) - 1

\* The end of the block that starts at line i: the line before the next end
\* marker, or the last line of the text when no end marker follows.
BlockEnd(broker, lines, i) ==
    IF \A j \in i..Len(lines) : ~IsEndMarker(broker, lines[j].txt) THEN Len(lines)
    ELSE (CHOOSE j \in i..Len(lines) :
              /\ IsEndMarker(broker, lines[j].txt)
              /\ \A k \in i..(j - 1) : ~IsEndMarker(broker, lines[k].txt)) - 1

TradesAfterHeader(broker, block, header_idx) ==
    IF header_idx = 0 THEN <<>> ELSE BlockTrades(broker, block, header_idx)

\* The trades of one block.
HeaderTrades(broker, block) ==
    TradesAfterHeader(broker, block, HeaderIdx(block))

\* GenericParser._extract_trades: the blocks found from line i on.
RECURSIVE SpotBlocks(_, _, _)
SpotBlocks(broker, lines, i) ==
    IF i > Len(lines) THEN <<>>
    ELSE IF ~IsStartMarker(broker, lines[i].txt)
    THEN SpotBlocks(broker, lines, i + 1)
    ELSE HeaderTrades(broker, SubSeq(lines, i, BlockEnd(broker, lines, i)))
         \o SpotBlocks(broker, lines, BlockEnd(broker, lines, i) + 1)

GenericParser_extract_trades(broker, lines) == SpotBlocks(broker, lines, 1)

BmfFields(tokens, qty) ==
    IF ~qty.ok THEN [ok |-> FALSE]
    ELSE [ok |-> TRUE,
          trade |-> [
            Tipo        |-> "BM&F",
            Negociacao  |-> NoTok,
            CV          |-> tokens[1],
            TipoMercado |-> NoTok,
            Titulo      |-> <<tokens[2]>>,
            Vencimento  |-> tokens[3],
            Quantidade  |-> qty.val,
            Preco       |-> clean_numeric(tokens[5]),
            TipoNegocio |-> tokens[6],
            Valor       |-> clean_numeric(tokens[7]),
            DC          |-> tokens[8],
            TaxaOperacional |-> clean_numeric(tokens[9])]]

BmfTokens(tokens) ==
    IF ~(Len(tokens) >= 9 /\ tokens[1] \in {<<"C">>, <<"V">>}
         /\ DateAt(tokens[3], 1))
    THEN [ok |-> FALSE]
    ELSE BmfFields(tokens, PyInt(tokens[4]))

\* One line of BMFParser._extract_trades; ok = FALSE when the line is no
\* trade line or int() raises.
BmfTrade(line) == BmfTokens(Tokens(line))

\* The fields of a trade line of XP; o = 1 when the business type is the
\* two tokens DAY TRADE.
XpBmfFields(tokens, qty, o) ==
    IF ~qty.ok \/ Len(tokens) < 10 + o THEN [ok |-> FALSE]
    ELSE [ok |-> TRUE,
          trade |-> [
            Tipo        |-> "BM&F",
            Negociacao  |-> NoTok,
            CV          |-> tokens[1],
            TipoMercado |-> NoTok,
            Titulo      |-> SubSeq(tokens, 2, 3),
            Vencimento  |-> RemoveChar(tokens[4], "@"),
            Quantidade  |-> qty.val,
            Preco       |-> clean_numeric(tokens[6]),
            TipoNegocio |-> IF o = 1 THEN <<"D", "A", "Y", " ", "T", "R", "A", "D", "E">>
                            ELSE tokens[7],
            Valor       |-> clean_numeric(tokens[8 + o]),
            DC          |-> tokens[9 + o],
            TaxaOperacional |-> clean_numeric(tokens[10 + o])]]

XpBmfTokens(tokens) ==
    IF Len(tokens) < 10 THEN [ok |-> FALSE]
    ELSE IF ~(tokens[1] \in {<<"C">>, <<"V">>}
              /\ \E i \in 1..Len(tokens[4]) : DateAt(tokens[4], i))
    THEN [ok |-> FALSE]
    ELSE XpBmfFields(tokens, PyInt(RemoveChar(tokens[5], ".")),
                     IF tokens[7] = <<"D", "A", "Y">>
                        /\ tokens[8] = <<"T", "R", "A", "D", "E">>
                     THEN 1 ELSE 0)

\* One line of XPBMFParser._extract_trades.
XpBmfTrade(line) == XpBmfTokens(Tokens(line))

\* The trades of all lines of a text, by a per-line extractor.
RECURSIVE LineTrades(_, _, _)
LineTrades(Extract(_), lines, i) ==
    IF i > Len(lines) THEN <<>>
    ELSE OkTrade(Extract(lines[i])) \o LineTrades(Extract, lines, i + 1)

BMFParser_extract_trades(lines) == LineTrades(BmfTrade, lines, 1)

XPBMFParser_extract_trades(lines) == LineTrades(XpBmfTrade, lines, 1)


\* ------------------------------------------------------------------------
\* Summary vocabularies
\* ------------------------------------------------------------------------

\* RESUMO_KEY_MAP_AVISTA, in dictionary order: <<canonical key, aliases>>.
RESUMO_KEY_MAP_AVISTA == <<
    <<"Debentures", <<"Debentures">> >>,
    <<"Vendas a Vista", <<"Vendas a vista", "Venda a Vista", "Vendas a Vista">> >>,
    <<"Compras a Vista", <<"Compras a vista", "Compra a Vista">> >>,
    <<"Opcoes - compras", <<"Opcoes - compras", "Compra Opcoes">> >>,
    <<"Opcoes - vendas", <<"Opcoes - vendas", "Venda Opcoes">> >>,
    <<"Operacoes a termo", <<"Operacoes a termo", "Operacao a Termo">> >>,
    <<"Valor das oper. c/ titulos publ. (v. nom.)",
      <<"Valor das oper. c/ titulos publ. (v. nom.)",
        "Valor das oper. com titulos publicos",
        "Valor das operacoes com titulos publicos">> >>,
    <<"Valor das operacoes", <<"Valor das operacoes", "Total das operacoes">> >>,
    <<"Valor liquido das operacoes",
      <<"Valor liquido das operacoes", "Liquido operacoes">> >>,
    <<"Taxa de liquidacao", <<"Taxa de liquidacao", "Taxa liquidacao">> >>,
    <<"Taxa de Registro", <<"Taxa de Registro", "Registro">> >>,
    <<"Total CBLC", <<"Total CBLC">> >>,
    <<"Taxa de termo/opcoes", <<"Taxa de termo/opcoes", "Taxa termo/opcoes">> >>,
    <<"Taxa A.N.A.", <<"Taxa A.N.A.", "Taxa ANA">> >>,
    <<"Emolumentos", <<"Emolumentos">> >>,
    <<"Total Bovespa / Soma", <<"Total Bovespa / Soma", "Total Bovespa/Soma">> >>,
    <<"Clearing", <<"Clearing", "Taxa Operacional">> >>,
    <<"Execucao", <<"Execucao">> >>,
    <<"Execucao casa", <<"Execucao casa", "Taxa de Custodia">> >>,
    <<"Corretagem", <<"Corretagem">> >>,
    <<"ISS", <<"ISS(SAO PAULO)", "ISS (SAO PAULO)", "ISS",
               "ISS* (SAO PAULO - SP)", "Impostos">> >>,
    <<"IRRF sobre operacoes",
      <<"I.R.R.F s/operacoes", "IRRF s/operacoes", "I.R.R.F. s/ operacoes",
        "IRRF s/ operacoes">> >>,
    <<"Outras", <<"Outras", "Outros">> >>,
    <<"Total corretagem / Despesas",
      <<"Total corretagem / Despesas", "Total Custos / Despesas">> >>,
    <<"Valor a ser Liquidado", <<"Valor a ser Liquidado", "Liquido para">> >> >>

\* RESUMO_KEY_MAP_BMF, in dictionary order.
RESUMO_KEY_MAP_BMF == <<
    <<"Venda disponivel", <<"Venda disponivel">> >>,
    <<"Compra disponivel", <<"Compra disponivel">> >>,
    <<"Venda Opcoes", <<"Venda Opcoes">> >>,
    <<"Compra Opcoes", <<"Compra Opcoes">> >>,
    <<"Valor dos negocios", <<"Valor dos negocios", "Vlr de Operacao/Ajuste">> >>,
    <<"IRRF", <<"IRRF", "IRRF operacional">> >>,
    <<"IRRF Day Trade (proj.)", <<"IRRF Day Trade (proj.)">> >>,
    <<"Taxa operacional", <<"Taxa operacional">> >>,
    <<"Taxa registro BM&F", <<"Taxa registro BM&F">> >>,
    <<"Taxas BM&F (emol+f.gar)", <<"Taxas BM&F (emol+f.gar)">> >>,
    <<"Outros Custos", <<"Outros Custos">> >>,
    <<"ISS", <<"ISS", "Impostos">> >>,
    <<"Ajuste de posicao", <<"Ajuste de posicao">> >>,
    <<"Ajuste day trade", <<"Ajuste day trade">> >>,
    <<"Total das despesas",
      <<"Total das despesas", "Total de custos operacionais">> >>,
    <<"Outros", <<"Outros">> >>,
    <<"IRRF Corretagem", <<"IRRF Corretagem">> >>,
    <<"Total Conta Investimento", <<"Total Conta Investimento">> >>,
    <<"Total Conta Normal", <<"Total Conta Normal">> >>,
    <<"Total liquido (#)", <<"Total liquido (#)">> >>,
    <<"Total liquido da nota", <<"Total liquido da nota">> >>,
    <<"Valor das operacoes", <<"Valor dos negocios", "Vlr de Operacao/Ajuste">> >> >>

\* LABEL_POSITIONS of XPBMFParser and BTGBMFParser (the two tables are
\* equal): <<label, block index, position index>>, indexes from 0.
LABEL_POSITIONS == <<
    <<"Venda disponivel", 0, 0>>, <<"Compra disponivel", 0, 1>>,
    <<"Venda Opcoes", 0, 2>>, <<"Compra Opcoes", 0, 3>>,
    <<"Valor dos negocios", 0, 4>>,
    <<"IRRF", 1, 0>>, <<"IRRF Day Trade (proj.)", 1, 1>>,
    <<"Taxa operacional", 1, 2>>, <<"Taxa registro BM&F", 1, 3>>,
    <<"Taxas BM&F (emol+f.gar)", 1, 4>>,
    <<"Outros Custos", 2, 0>>, <<"ISS", 2, 1>>, <<"Ajuste de posicao", 2, 2>>,
    <<"Ajuste day trade", 2, 3>>, <<"Total das despesas", 2, 4>>,
    <<"Outros", 3, 0>>, <<"IRRF Corretagem", 3, 1>>,
    <<"Total Conta Investimento", 3, 2>>, <<"Total Conta Normal", 3, 3>>,
    <<"Total liquido (#)", 3, 4>>, <<"Total liquido da nota", 3, 5>>,
    <<"Valor das operacoes", 0, 4>> >>

\* The canonical keys of a table.
KeysOf(map) == {map[i][1] : i \in 1..Len(map)}


\* ------------------------------------------------------------------------
\* Label-anchored summary extraction
\* ------------------------------------------------------------------------

\* The characters of the amount group [\d\.,]+.
NumChars == Digits \cup {".", ","}

\* The longest prefix of a token made of amount characters.
NumPrefix(tok) ==
    LET stop == {i \in 1..Len(tok) : tok[i] \notin NumChars}
        e    == IF stop = {} THEN Len(tok)
                ELSE (CHOOSE i \in stop : \A j \in stop : i <= j) - 1
    IN  SubSeq(tok, 1, e)

\* A token without its leading separators [.:\-]*.
DropSeparators(tok) ==
    LET keep == {i \in 1..Len(tok) : tok[i] \notin {".", ":", "-"}}
    IN  IF keep = {} THEN <<>>
        ELSE SubSeq(tok, CHOOSE i \in keep : \A j \in keep : i <= j, Len(tok))

\* The letter group ([CD])? after an amount that is a prefix of tok, the
\* text going on with the tokens rest; flags are the letters the group
\* accepts.
LetterAfter(tok, amount, rest, flags) ==
    IF Len(amount) < Len(tok)
    THEN IF tok[Len(amount) + 1] \in flags THEN tok[Len(amount) + 1] ELSE ""
    ELSE IF rest # <<>> /\ rest[1] # <<>> /\ rest[1][1] \in flags
    THEN rest[1][1]
    ELSE ""

\* The tokens that follow the wording of line i in the joined text.
Following(lines, i) ==
    lines[i].toks \o (IF i < Len(lines) THEN Tokens(lines[i + 1]) ELSE <<>>)

\* The alias, as spelled in the key maps, that the wording of a line ends
\* with (re.IGNORECASE); "" when it ends with none.
AliasOf(txt) ==
    CASE txt = tValorOp -> "Valor das operacoes"
      [] txt = tCorretagem -> "Corretagem"
      [] txt = tBmfL0 -> "Valor dos negocios"
      [] txt = tBmfL2 -> "Total das despesas"
      [] txt = tAjustePos -> "Ajuste de posicao"
      [] txt = tBmfL3 -> "Total liquido da nota"
      [] OTHER -> ""

NotFound == [found |-> FALSE, value |-> 0, label |-> ""]

\* value, label and found of one successful match.
MatchOf(value, letter) ==
    [found |-> TRUE, value |-> value, label |-> IF value = 0 THEN "" ELSE letter]

Matched(number_str, letter) == MatchOf(Abs(clean_numeric(number_str)), letter)

\* The first of two results that is a match.
OrElse(m, other) == IF m.found THEN m ELSE other

\* The groups ([\d\.,]+)\s*([CD])? at token tok, the text going on with
\* the tokens rest.
AmountMatch(tok, rest, flags) ==
    IF NumPrefix(tok) = <<>> THEN NotFound
    ELSE Matched(NumPrefix(tok), LetterAfter(tok, NumPrefix(tok), rest, flags))

\* The optional R$ of the generic pattern.
AfterCurrency(f) == IF f # <<>> /\ f[1] = <<"R", "$">> THEN Tail(f) ELSE f

\* The amount and the letter at the head of the tokens g.
CurrencyTail(g) ==
    IF g = <<>> THEN NotFound
    ELSE AmountMatch(g[1], Tail(g), {"C", "D", "c", "d"})

\* The separators, the R$ and the amount after an alias: the separators
\* are one run, either a token of their own, before the R$, or the head of
\* the amount's token.
GenericTail(f) ==
    IF f = <<>> THEN NotFound
    ELSE IF DropSeparators(f[1]) = <<>>
    THEN CurrencyTail(AfterCurrency(Tail(f)))
    ELSE IF f[1] = <<"R", "$">> THEN CurrencyTail(Tail(f))
    ELSE AmountMatch(DropSeparators(f[1]), Tail(f), {"C", "D", "c", "d"})

\* The generic pattern alias [.:\-]* R$ amount [CD] at line i.
GenericMatchAt(lines, i, var) ==
    IF AliasOf(lines[i].txt) = var
    THEN GenericTail(Following(lines, i))
    ELSE NotFound

\* re.search: the first line, from line i on, where the pattern matches.
RECURSIVE GenericMatchFrom(_, _, _)
GenericMatchFrom(lines, i, var) ==
    IF i > Len(lines) THEN NotFound
    ELSE OrElse(GenericMatchAt(lines, i, var), GenericMatchFrom(lines, i + 1, var))

GenericMatch(lines, var) == GenericMatchFrom(lines, 1, var)

\* A time of day \d{2}:\d{2}:\d{2}.
IsTime(tok) ==
    /\ Len(tok) = 8
    /\ \A k \in {1, 2, 4, 5, 7, 8} : tok[k] \in Digits
    /\ tok[3] = ":" /\ tok[6] = ":"

\* The tokens after the date and the optional time of day.
SkipTime(f) == IF Len(f) >= 2 /\ IsTime(f[2]) THEN Tail(Tail(f)) ELSE Tail(f)

LiquidoTail(g) ==
    IF g = <<>> THEN NotFound
    ELSE AmountMatch(g[1], Tail(g), {"C", "D", "c", "d"})

LiquidoAfter(f) ==
    IF f # <<>> /\ Len(f[1]) = 10 /\ DateAt(f[1], 1)
    THEN LiquidoTail(SkipTime(f))
    ELSE NotFound

\* The sentence "Liquido para <date> [<time>] <amount> [CD]" at line i.
LiquidoMatchAt(lines, i) ==
    IF lines[i].txt = tLiquido THEN LiquidoAfter(Following(lines, i))
    ELSE NotFound

RECURSIVE LiquidoMatchFrom(_, _)
LiquidoMatchFrom(lines, i) ==
    IF i > Len(lines) THEN NotFound
    ELSE OrElse(LiquidoMatchAt(lines, i), LiquidoMatchFrom(lines, i + 1))

LiquidoMatch(lines) == LiquidoMatchFrom(lines, 1)

\* An alias of "Outras" found in a line (lower-cased).
HasOutras(line) == line.txt \in {tBmfL2, tBmfL3}

\* Whether a token holds an amount character.
HasNumChar(tok) == \E c \in 1..Len(tok) : tok[c] \in NumChars

\* The last match of ([\d\.,]+)\s*([CD])? inside token tok, the text going
\* on with the tokens rest.
LastAmountTok(tok, rest) ==
    LET e == CHOOSE x \in 1..Len(tok) :
                 /\ tok[x] \in NumChars
                 /\ \A y \in (x + 1)..Len(tok) : tok[y] \notin NumChars
        b == CHOOSE x \in 1..e :
                 /\ \A y \in x..e : tok[y] \in NumChars
                 /\ (x = 1 \/ tok[x - 1] \notin NumChars)
    IN  Matched(SubSeq(tok, b, e),
                LetterAfter(tok, SubSeq(tok, 1, e), rest, {"C", "D"}))

\* The last match of ([\d\.,]+)\s*([CD])? in the tokens of a line.
LastAmountIn(tokens) ==
    IF \A k \in 1..Len(tokens) : ~HasNumChar(tokens[k]) THEN NotFound
    ELSE LET k == CHOOSE x \in 1..Len(tokens) :
                     /\ HasNumChar(tokens[x])
                     /\ \A y \in (x + 1)..Len(tokens) : ~HasNumChar(tokens[y])
         IN  LastAmountTok(tokens[k], SubSeq(tokens, k + 1, Len(tokens)))

LastAmount(line) == LastAmountIn(Tokens(line))

IrrfAbove(lines, i) == IF i = 1 THEN NotFound ELSE LastAmount(lines[i - 1])

\* The amount on the line above the first "Outras" line of the summary.
IrrfMatch(lines) ==
    IF \A i \in 1..Len(lines) : ~HasOutras(lines[i]) THEN NotFound
    ELSE IrrfAbove(lines, CHOOSE x \in 1..Len(lines) :
                              /\ HasOutras(lines[x])
                              /\ \A y \in 1..(x - 1) : ~HasOutras(lines[y]))

\* The pattern of one canonical key for one of its aliases.
KeyMatch(lines, std_key, var) ==
    IF std_key = "Valor a ser Liquidado" THEN LiquidoMatch(lines)
    ELSE IF std_key = "IRRF sobre operacoes" THEN IrrfMatch(lines)
    ELSE GenericMatch(lines, var)

\* The result for one canonical key: its aliases are tried in order and the
\* first that matches decides.
RECURSIVE TryVariants(_, _, _, _)
TryVariants(lines, std_key, variants, v) ==
    IF v > Len(variants) THEN NotFound
    ELSE OrElse(KeyMatch(lines, std_key, variants[v]),
                TryVariants(lines, std_key, variants, v + 1))

\* The parser classes that are AVistaParser or derive from it.
IsAVistaParser(parser_class) ==
    parser_class \in {"AVistaParser", "XPAvistaParser", "BTGAvistaParser"}

\* The first line of the last summary block: the last "Resumo dos
\* Negocios", else the last "Resumo de negocios", else 0.
LastLineWith(lines, txt) ==
    IF \A i \in 1..Len(lines) : lines[i].txt # txt THEN 0
    ELSE CHOOSE i \in 1..Len(lines) :
             /\ lines[i].txt = txt
             /\ \A j \in (i + 1)..Len(lines) : lines[j].txt # txt

SummaryStart(lines) ==
    IF LastLineWith(lines, tResumoDos) # 0 THEN LastLineWith(lines, tResumoDos)
    ELSE LastLineWith(lines, tResumoDe)

ItauTotalKeys == {"Corretagem", "ISS", "IRRF sobre operacoes", "Outras"}

RECURSIVE SumOver(_, _)
SumOver(f, S) ==
    IF S = {} THEN 0
    ELSE LET x == CHOOSE y \in S : TRUE
         IN  (IF x \in DOMAIN f THEN f[x] ELSE 0) + SumOver(f, S \ {x})

\* The key map of the parser's kind.
KeyMapOf(parser_class) ==
    IF IsAVistaParser(parser_class) THEN RESUMO_KEY_MAP_AVISTA
    ELSE RESUMO_KEY_MAP_BMF

\* The aliases of a canonical key (the last entry of the key decides).
VariantsOf(key_map, k) ==
    key_map[CHOOSE i \in 1..Len(key_map) :
                /\ key_map[i][1] = k
                /\ \A j \in (i + 1)..Len(key_map) : key_map[j][1] # k][2]

\* The match of every canonical key in the summary text.
SummaryResults(text, key_map) ==
    [k \in KeysOf(key_map) |-> TryVariants(text, k, VariantsOf(key_map, k), 1)]

\* ITAU: "Total corretagem / Despesas" is the sum of four of the values.
WithItauTotal(broker, vals) ==
    IF broker = "ITAU"
    THEN [k \in DOMAIN vals \cup {"Total corretagem / Despesas"} |->
             IF k = "Total corretagem / Despesas"
             THEN SumOver(vals, ItauTotalKeys) ELSE vals[k]]
    ELSE vals

SummaryRecord(broker, res) ==
    [vals  |-> WithItauTotal(broker, [k \in DOMAIN res |-> res[k].value]),
     flags |-> [k \in DOMAIN res |-> res[k].label]]

SummaryFrom(broker, lines, start, key_map) ==
    IF start = 0
    THEN [vals  |-> [k \in KeysOf(RESUMO_KEY_MAP_AVISTA) |-> 0],
          flags |-> [k \in {} |-> ""]]
    ELSE SummaryRecord(broker,
             SummaryResults(SubSeq(lines, start, Len(lines)), key_map))

\* GenericParser._extract_summary_values: [vals, flags], the canonical keys
\* and their "<key> AAAA" letters.
GenericParser_extract_summary_values(parser_class, broker, lines) ==
    SummaryFrom(broker, lines, SummaryStart(lines), KeyMapOf(parser_class))


\* ------------------------------------------------------------------------
\* Positional summary extraction (XPBMFParser, BTGBMFParser)
\* ------------------------------------------------------------------------

\* any(label in line for label in LABEL_POSITIONS)
IsLabelLine(line) == line.txt \in {tBmfL0, tBmfL1, tBmfL2, tBmfL3, tValorOp}

\* re.search(r"\d", line)
HasDigit(line) ==
    \E k \in 1..Len(line.toks) : \E c \in 1..Len(line.toks[k]) :
        line.toks[k][c] \in Digits

\* The tokens a number line adds to its block: every character but digits,
\* '.', ',' and 'D' is removed, and a token is kept when it holds a digit or
\* a comma.
NumberTokens(line) ==
    LET clean(tok) == SelectSeq(tok, LAMBDA c : c \in NumChars \cup {"D"})
        kept(tok)  == \E c \in 1..Len(tok) : tok[c] \in Digits \cup {","}
        cleaned    == [k \in 1..Len(line.toks) |-> clean(line.toks[k])]
    IN  SelectSeq(cleaned, kept)

\* The blocks of one page: [raised, blocks], blocks[b + 1] the number list
\* of block b; raised when a fifth label line makes label_blocks[4] fail.
RECURSIVE BlockLoop(_, _, _, _)
BlockLoop(lines, i, block_index, number_blocks) ==
    IF i > Len(lines) THEN [raised |-> FALSE, blocks |-> number_blocks]
    ELSE IF IsBlank(lines[i])
    THEN BlockLoop(lines, i + 1, block_index, number_blocks)
    ELSE IF IsLabelLine(lines[i])
    THEN IF block_index + 1 > 3
         THEN [raised |-> TRUE, blocks |-> number_blocks]
         ELSE BlockLoop(lines, i + 1, block_index + 1, number_blocks)
    ELSE IF HasDigit(lines[i]) /\ block_index >= 0
    THEN BlockLoop(lines, i + 1, block_index,
                   [number_blocks EXCEPT ![block_index + 1] =
                       @ \o NumberTokens(lines[i])])
    ELSE BlockLoop(lines, i + 1, block_index, number_blocks)

\* re.findall(r"[\d.,]+", ...) of one token: its maximal runs of amount
\* characters.
RECURSIVE Runs(_)
Runs(tok) ==
    IF tok = <<>> THEN <<>>
    ELSE IF tok[1] \notin NumChars THEN Runs(Tail(tok))
    ELSE LET r == NumPrefix(tok)
         IN  <<r>> \o Runs(SubSeq(tok, Len(r) + 1, Len(tok)))

RECURSIVE AllRuns(_)
AllRuns(toks) ==
    IF toks = <<>> THEN <<>> ELSE Runs(toks[1]) \o AllRuns(Tail(toks))

\* value_str in token
IsSubstr(a, tok) ==
    \E i \in 1..(Len(tok) - Len(a) + 1) : SubSeq(tok, i, i + Len(a) - 1) = a

\* value_str in line
LineHolds(line, value_str) ==
    /\ ~IsBlank(line)
    /\ \E k \in 1..Len(Tokens(line)) : IsSubstr(value_str, Tokens(line)[k])

\* re.search(r'\bD\b', after): a token "D" after the first token holding
\* value_str.
DAfter(tokens, value_str) ==
    \E j \in 1..Len(tokens) :
        /\ tokens[j] = <<"D">>
        /\ \E x \in 1..(j - 1) : IsSubstr(value_str, tokens[x])

\* The letter of a value: "D" when, in the first line holding value_str, a
\* token "D" follows it; "C" otherwise.
LetterOf(lines, value_str) ==
    IF \A i \in 1..Len(lines) : ~LineHolds(lines[i], value_str) THEN "C"
    ELSE IF DAfter(Tokens(lines[CHOOSE i \in 1..Len(lines) :
                              /\ LineHolds(lines[i], value_str)
                              /\ \A j \in 1..(i - 1) : ~LineHolds(lines[j], value_str)]),
                   value_str)
    THEN "D" ELSE "C"

NoCell == [value |-> 0, label |-> ""]

CellOf(lines, value_str, value) ==
    [value |-> value,
     label |-> IF value > 0 THEN LetterOf(lines, value_str) ELSE ""]

\* The positional result of one page for one label (block, position).
PageValue(lines, blocks, entry) ==
    IF entry[3] + 1 > Len(blocks[entry[2] + 1]) THEN NoCell
    ELSE CellOf(lines, blocks[entry[2] + 1][entry[3] + 1],
                Abs(clean_numeric(blocks[entry[2] + 1][entry[3] + 1])))

\* The entry of a label in LABEL_POSITIONS.
EntryOf(k) ==
    LABEL_POSITIONS[CHOOSE e \in 1..Len(LABEL_POSITIONS) : LABEL_POSITIONS[e][1] = k]

\* The blocks of a page.
PageBlocks(lines) == BlockLoop(lines, 1, -1, <<<<>>, <<>>, <<>>, <<>>>>)

\* The special cleaning of block 3.
CleanBlock3(blocks) == [blocks EXCEPT ![4] = AllRuns(@)]

PageResult(lines, blocks) ==
    [k \in KeysOf(LABEL_POSITIONS) |-> PageValue(lines, blocks, EntryOf(k))]

\* A fold in which a page leaves a key as it was when the page has no
\* value at the key's block and position.
KeepFound(res, page_res) ==
    [k \in KeysOf(LABEL_POSITIONS) |->
        IF page_res[k] = NoCell THEN res[k] ELSE page_res[k]]

RECURSIVE PageLoopKeepingFound(_, _, _)
PageLoopKeepingFound(pages, i, res) ==
    IF i > Len(pages) THEN [raised |-> FALSE, res |-> res]
    ELSE IF PageBlocks(pages[i].lines).raised THEN [raised |-> TRUE, res |-> res]
    ELSE PageLoopKeepingFound(pages, i + 1,
             KeepFound(res,
                 PageResult(pages[i].lines,
                            CleanBlock3(PageBlocks(pages[i].lines).blocks))))

\* The pages of the document folded in order: [raised, res], res the
\* summary after the pages so far.
RECURSIVE PageLoop(_, _, _)
PageLoop(pages, i, res) ==
    IF i > Len(pages) THEN [raised |-> FALSE, res |-> res]
    ELSE IF PageBlocks(pages[i].lines).raised THEN [raised |-> TRUE, res |-> res]
    ELSE PageLoop(pages, i + 1,
             PageResult(pages[i].lines,
                        CleanBlock3(PageBlocks(pages[i].lines).blocks)))

\* The summary before any page is read, and after the outer except.
ZeroSummary == [k \in KeysOf(LABEL_POSITIONS) |-> NoCell]

PositionalRecord(r) ==
    [vals  |-> [k \in KeysOf(LABEL_POSITIONS) |->
                   IF r.raised THEN 0 ELSE r.res[k].value],
     flags |-> [k \in KeysOf(LABEL_POSITIONS) |->
                   IF r.raised THEN "" ELSE r.res[k].label]]

\* XPBMFParser._extract_summary_values and
\* BTGBMFParser._extract_summary_values (the same code).
Positional_extract_summary_values(pages) ==
    PositionalRecord(PageLoop(pages, 1, ZeroSummary))


\* ------------------------------------------------------------------------
\* Parsers
\* ------------------------------------------------------------------------

\* TradeProcessor._match_broker_by_signature: a signature pattern of the
\* profile is found in the text (sigs: the profiles whose pattern occurs).
match_broker_by_signature(pages, broker) ==
    \E i \in 1..Len(pages) : broker \in pages[i].sigs

\* A table whose fallback for a futures or unknown document is the futures
\* class of XP.
ParserClassFallbackXP(broker_name, invoice_type) ==
    CASE broker_name = "XP" /\ invoice_type = "avista" -> "XPAvistaParser"
      [] broker_name = "XP" /\ invoice_type = "bmf" -> "XPBMFParser"
      [] broker_name = "BTG" /\ invoice_type = "avista" -> "BTGAvistaParser"
      [] broker_name = "BTG" /\ invoice_type = "bmf" -> "BTGBMFParser"
      [] OTHER -> IF invoice_type = "avista" THEN "AVistaParser" ELSE "XPBMFParser"

\* BROKER_TYPE_TO_PARSER.get((broker_name, invoice_type), fallback)
ParserClass(broker_name, invoice_type) ==
    CASE broker_name = "XP" /\ invoice_type = "avista" -> "XPAvistaParser"
      [] broker_name = "XP" /\ invoice_type = "bmf" -> "XPBMFParser"
      [] broker_name = "BTG" /\ invoice_type = "avista" -> "BTGAvistaParser"
      [] broker_name = "BTG" /\ invoice_type = "bmf" -> "BTGBMFParser"
      [] broker_name = "ITAU" /\ invoice_type = "avista" -> "AVistaParser"
      [] broker_name = "AGORA" /\ invoice_type = "avista" -> "AVistaParser"
      [] OTHER -> IF invoice_type = "avista" THEN "AVistaParser" ELSE "BMFParser"

\* The last profile of cls.PARSERS whose signature is found.
LastBroker(pages) ==
    IF \A i \in 1..Len(PARSERS) : ~match_broker_by_signature(pages, PARSERS[i])
    THEN ""
    ELSE PARSERS[CHOOSE i \in 1..Len(PARSERS) :
                    /\ match_broker_by_signature(pages, PARSERS[i])
                    /\ \A j \in (i + 1)..Len(PARSERS) :
                           ~match_broker_by_signature(pages, PARSERS[j])]

\* The first profile of cls.PARSERS whose signature is found; "" when
\* there is none.
FirstBroker(pages) ==
    IF \A i \in 1..Len(PARSERS) : ~match_broker_by_signature(pages, PARSERS[i])
    THEN ""
    ELSE PARSERS[CHOOSE i \in 1..Len(PARSERS) :
                    /\ match_broker_by_signature(pages, PARSERS[i])
                    /\ \A j \in 1..(i - 1) :
                           ~match_broker_by_signature(pages, PARSERS[j])]

ParserOf(broker_name, pages) ==
    IF broker_name = "" THEN [class |-> "None", broker |-> ""]
    ELSE [class  |-> ParserClass(broker_name, classify_invoice_type(LinesOf(pages))),
          broker |-> broker_name]

\* The loop over cls.PARSERS of process_pdfs: the class of matched_parser
\* and its profile; "None" when no signature is found.
MatchParser(pages) == ParserOf(FirstBroker(pages), pages)

\* The invoice number of a document: the first one its text shows.
DocInvoice(pages) ==
    LET has == {i \in 1..Len(pages) : pages[i].invoice # ""}
    IN  IF has = {} THEN ""
        ELSE pages[CHOOSE i \in has : \A j \in has : i <= j].invoice

\* The date of a document: the first one its text shows; NoDate for "".
DocDate(pages) ==
    LET has == {i \in 1..Len(pages) : pages[i].date # NoDate}
    IN  IF has = {} THEN NoDate
        ELSE pages[CHOOSE i \in has : \A j \in has : i <= j].date

NoSummary == [vals |-> [k \in {} |-> 0], flags |-> [k \in {} |-> ""]]

\* The value of a parse that raised.
Raised ==
    [ok |-> FALSE, broker |-> "", invoice |-> "", date |-> NoDate,
     trades |-> <<>>, summary |-> NoSummary]

\* A BMFParser whose inherited summary extractor takes the file path too,
\* so that its parse_pdf returns.
EveryFuturesClassTakesFilePath(parser_class) ==
    parser_class \in {"BMFParser", "XPBMFParser", "BTGBMFParser"}

\* Whether the summary extractor a class inherits takes the file path that
\* BMFParser.parse_pdf and XPBMFParser.parse_pdf pass to it.
SummaryTakesFilePath(parser_class) ==
    parser_class \in {"XPBMFParser", "BTGBMFParser"}

\* parse_pdf of the matched parser: GenericParser.parse_pdf for the spot
\* classes, BMFParser.parse_pdf for BMFParser and BTGBMFParser,
\* XPBMFParser.parse_pdf for XPBMFParser.
\* self._extract_summary_values as the class resolves it: the positional
\* extractor for XPBMFParser and BTGBMFParser, GenericParser's for the
\* other classes.
extract_summary_values(parser_class, broker, pages) ==
    IF SummaryTakesFilePath(parser_class)
    THEN Positional_extract_summary_values(pages)
    ELSE GenericParser_extract_summary_values(parser_class, broker, LinesOf(pages))

ParseLines(parser_class, broker, pages, lines) ==
    IF IsAVistaParser(parser_class)
    THEN [ok |-> TRUE, broker |-> broker, invoice |-> DocInvoice(pages),
          date |-> DocDate(pages),
          trades |-> GenericParser_extract_trades(broker, lines),
          summary |-> extract_summary_values(parser_class, broker, pages)]
    ELSE IF ~SummaryTakesFilePath(parser_class) THEN Raised
    ELSE [ok |-> TRUE, broker |-> broker, invoice |-> DocInvoice(pages),
          date |-> DocDate(pages),
          trades |-> IF parser_class = "XPBMFParser"
                     THEN XPBMFParser_extract_trades(lines)
                     ELSE BMFParser_extract_trades(lines),
          summary |-> extract_summary_values(parser_class, broker, pages)]

parse_pdf(parser_class, broker, pages) ==
    ParseLines(parser_class, broker, pages, LinesOf(pages))

\* trade.update({...}) of process_pdfs.
TradeRow(trade, result) ==
    trade @@ [broker |-> result.broker, date |-> result.date,
              invoice |-> result.invoice, client_cpf |-> ""]

\* ------------------------------------------------------------------------
\* Aggregation and reconciliation (process_directory)
\* ------------------------------------------------------------------------

\* str.upper() of a token, for the letters the model's tokens hold.
Upper(tok) ==
    [i \in 1..Len(tok) |->
        CASE tok[i] = "c" -> "C" [] tok[i] = "d" -> "D" [] tok[i] = "v" -> "V"
          [] OTHER -> tok[i]]

\* The column valor_trades of a row: "Valor Operacao" for a BM&F row and
\* "Valor Operacao / Ajuste" for a spot row; both are the row's Valor.
valor_trades(row) == row.Valor

\* A column valor_trades_consistency that negates on the letter "C" as
\* written, without str.upper().
ConsistencyValueCaseSensitive(row) ==
    IF row.Tipo = "BM&F" /\ row.DC = <<"C">> THEN -1 * row.Valor ELSE row.Valor

\* The column valor_trades_consistency of a row.
valor_trades_consistency(row) ==
    IF row.Tipo = "BM&F" /\ Upper(row.DC) = <<"C">>
    THEN -1 * valor_trades(row)
    ELSE valor_trades(row)

\* A reconciliation whose status accepts a difference of one cent.
StatusWithinOneCent(diferenca) ==
    IF diferenca >= -1 /\ diferenca <= 1 THEN "OK" ELSE "Inconsistencia"

\* A rounding that cuts the mills off.
Truncate2(x) == IF x >= 0 THEN x \div 10 ELSE -((-x) \div 10)

\* Series.round(2): a number of mills rounded to cents, halves to even.
Round2(x) ==
    LET q == x \div 10
        r == x % 10
    IN  IF r < 5 THEN q
        ELSE IF r > 5 THEN q + 1
        ELSE IF q % 2 = 0 THEN q ELSE q + 1

\* The status of a rounded difference (in cents): abs(x) < 0.01.
StatusOf(diferenca) == IF Abs(diferenca) < 1 THEN "OK" ELSE "Inconsistencia"

KeyOfRow(row) == <<row.invoice, row.broker, row.Tipo>>

\* The keys of a table, each once, in order of first occurrence.
RECURSIVE DistinctKeys(_, _)
DistinctKeys(rows, seen) ==
    IF rows = <<>> THEN <<>>
    ELSE IF KeyOfRow(rows[1]) \in seen THEN DistinctKeys(Tail(rows), seen)
    ELSE <<KeyOfRow(rows[1])>>
         \o DistinctKeys(Tail(rows), seen \cup {KeyOfRow(rows[1])})

\* groupby(["invoice", "broker", "Tipo"])["valor_trades_consistency"].sum()
\* for one key.
RECURSIVE TradeTotal(_, _)
TradeTotal(df, key) ==
    IF df = <<>> THEN 0
    ELSE (IF KeyOfRow(df[1]) = key THEN df[1].valor_trades_consistency ELSE 0)
         + TradeTotal(Tail(df), key)

\* The first of summary_candidates that is a column of df_summary; "" when
\* none is.
valor_col(df_summary) ==
    LET cols == UNION {DOMAIN df_summary[i].vals : i \in 1..Len(df_summary)}
    IN  IF "Valor das operacoes" \in cols THEN "Valor das operacoes"
        ELSE IF "Valor dos negocios" \in cols THEN "Valor dos negocios"
        ELSE ""

\* The cell of a summary row in a column; a missing cell (NaN) is filled
\* with 0.
Declared(row, col) == IF col \in DOMAIN row.vals THEN row.vals[col] ELSE 0

ConsistencyRow(key, total, declared) ==
    [invoice |-> key[1], broker |-> key[2], Tipo |-> key[3],
     valor_trades_consistency |-> total,
     valor_das_operacoes |-> declared,
     Diferenca |-> Round2(total - declared),
     Status |-> StatusOf(Round2(total - declared))]

\* An inner join: a key without a summary row gives no row.
RowsOfKeyInner(key, df_trades, df_summary, col) ==
    LET mine == SelectSeq(df_summary, LAMBDA r : KeyOfRow(r) = key)
    IN  [i \in 1..Len(mine) |->
            ConsistencyRow(key, TradeTotal(df_trades, key),
                           Declared(mine[i], col))]

\* The rows the two left merges give for one key: one per summary row of
\* the key, or a single row when the key has no summary row.
RowsOfKey(key, df_trades, df_summary, col) ==
    LET total == TradeTotal(df_trades, key)
        mine  == SelectSeq(df_summary, LAMBDA r : KeyOfRow(r) = key)
    IN  IF mine = <<>> THEN <<ConsistencyRow(key, total, 0)>>
        ELSE [i \in 1..Len(mine) |->
                 ConsistencyRow(key, total, Declared(mine[i], col))]

RECURSIVE MergeRows(_, _, _, _)
MergeRows(keys, df_trades, df_summary, col) ==
    IF keys = <<>> THEN <<>>
    ELSE RowsOfKey(keys[1], df_trades, df_summary, col)
         \o MergeRows(Tail(keys), df_trades, df_summary, col)

\* df_consistency of process_directory. Rows are listed by first
\* occurrence of their key (the source lists the trade keys sorted).
Consistency(df_trades, df_summary) ==
    IF df_trades = <<>> /\ df_summary = <<>> THEN <<>>
    ELSE IF valor_col(df_summary) = "" THEN <<>>
    ELSE MergeRows(DistinctKeys(df_trades \o df_summary, {}),
                   df_trades, df_summary, valor_col(df_summary))


\* ------------------------------------------------------------------------
\* Input documents
\* ------------------------------------------------------------------------

\* A spot note of BTG, invoice 123: one sale of 500,00, flagged C, and a
\* declared total of 500,00.
PgSpotA ==
    [date |-> 1, sigs |-> {"BTG"}, invoice |-> "123",
     lines |-> <<
        [txt |-> tStart, toks |-> <<>>],
        [txt |-> tHeader, toks |-> <<>>],
        [txt |-> "", toks |-> <<
                    <<"1", "-", "B", "O", "V", "E", "S", "P", "A">>, <<"V">>,
                    <<"V", "I", "S", "T", "A">>, <<"P", "E", "T", "R", "4">>,
                    <<"O", "N">>, <<"1", "0">>, <<"5", "0", ",", "0", "0">>,
                    <<"5", "0", "0", ",", "0", "0">>, <<"C">>>>],
        [txt |-> tResumoDos, toks |-> <<>>],
        [txt |-> tValorOp, toks |-> <<<<"5", "0", "0", ",", "0", "0">>,
                    <<"C">>>>] >>]

\* A page of the same note dated the next day: no trade table, a declared
\* total of 499,99.
PgSpotB ==
    [date |-> 2, sigs |-> {"BTG"}, invoice |-> "123",
     lines |-> <<
        [txt |-> tResumoDos, toks |-> <<>>],
        [txt |-> tValorOp, toks |-> <<<<"4", "9", "9", ",", "9", "9">>,
                    <<"C">>>>] >>]

\* A futures note of XP: three trades flagged C, D and c that sum to
\* 100,006 once the credits are negated, and the first block of the
\* positional summary, declaring 100,00.
PgFutXP ==
    [date |-> 1, sigs |-> {"XP"}, invoice |-> "733612",
     lines |-> <<
        [txt |-> tBmfHeader, toks |-> <<>>],
        [txt |-> "", toks |-> <<<<"C">>, <<"W", "I", "N">>,
                    <<"Q", "2", "1">>,
                    <<"1", "8", "/", "0", "8", "/", "2", "0", "2", "1">>,
                    <<"1">>, <<"1", "0", "0", ",", "0", "0">>,
                    <<"N", "O", "R", "M", "A", "L">>,
                    <<"3", "0", ",", "0", "0">>, <<"C">>,
                    <<"0", ",", "1", "0">>>>],
        [txt |-> "", toks |-> <<<<"V">>, <<"W", "I", "N">>,
                    <<"Q", "2", "1">>,
                    <<"1", "8", "/", "0", "8", "/", "2", "0", "2", "1">>,
                    <<"1">>, <<"1", "0", "0", ",", "0", "0">>,
                    <<"N", "O", "R", "M", "A", "L">>,
                    <<"1", "5", "0", ",", "0", "0", "6">>, <<"D">>,
                    <<"0", ",", "1", "0">>>>],
        [txt |-> "", toks |-> <<<<"C">>, <<"W", "I", "N">>,
                    <<"Q", "2", "1">>,
                    <<"1", "8", "/", "0", "8", "/", "2", "0", "2", "1">>,
                    <<"2">>, <<"1", "0", "0", ",", "0", "0">>,
                    <<"D", "A", "Y">>, <<"T", "R", "A", "D", "E">>,
                    <<"2", "0", ",", "0", "0">>, <<"c">>,
                    <<"0", ",", "1", "0">>>>],
        [txt |-> tBmfL0, toks |-> <<>>],
        [txt |-> "", toks |-> <<<<"0", ",", "0", "0">>,
                    <<"0", ",", "0", "0">>, <<"0", ",", "0", "0">>,
                    <<"0", ",", "0", "0">>,
                    <<"1", "0", "0", ",", "0", "0">>>>] >>]

\* A page with a BTG signature and a trade-like line, but none of the
\* classifier's phrases.
PgUnknown ==
    [date |-> 1, sigs |-> {"BTG"}, invoice |-> "999",
     lines |-> <<
        [txt |-> "", toks |-> <<<<"C">>, <<"D", "O", "L">>,
                    <<"1", "8", "/", "0", "8", "/", "2", "0", "2", "1">>,
                    <<"1">>, <<"1", "0", "0", ",", "0", "0">>,
                    <<"N", "O", "R", "M", "A", "L">>,
                    <<"5", "0", ",", "0", "0">>, <<"D">>,
                    <<"0", ",", "1", "0">>>>] >>]

\* The pages the batches of the pipeline runs are made of.
Catalog == {PgSpotA, PgSpotB, PgFutXP, PgUnknown}

\* A spot note of BTG whose trade table holds a quantity of 0 and a
\* negative amount; its summary shows the brokerage fee only.
PgSpotNeg ==
    [date |-> 1, sigs |-> {"BTG"}, invoice |-> "124",
     lines |-> <<
        [txt |-> tStart, toks |-> <<>>],
        [txt |-> tHeader, toks |-> <<>>],
        [txt |-> "", toks |-> <<
                    <<"1", "-", "B", "O", "V", "E", "S", "P", "A">>, <<"C">>,
                    <<"V", "I", "S", "T", "A">>, <<"P", "E", "T", "R", "4">>,
                    <<"O", "N">>, <<"0">>, <<"5", "0", ",", "0", "0">>,
                    <<"0", ",", "0", "0">>, <<"D">>>>],
        [txt |-> "", toks |-> <<
                    <<"1", "-", "B", "O", "V", "E", "S", "P", "A">>, <<"V">>,
                    <<"V", "I", "S", "T", "A">>, <<"P", "E", "T", "R", "4">>,
                    <<"O", "N">>, <<"1", "0">>, <<"5", "0", ",", "0", "0">>,
                    <<"-", "5", "0", "0", ",", "0", "0">>, <<"C">>>>],
        [txt |-> tResumoDos, toks |-> <<>>],
        [txt |-> tCorretagem, toks |-> <<<<"2", ",", "5", "0">>>>] >>]

\* A spot page of BTG with a trade table and no summary block.
PgSpotNoResumo ==
    [date |-> 1, sigs |-> {"BTG"}, invoice |-> "125",
     lines |-> <<
        [txt |-> tStart, toks |-> <<>>],
        [txt |-> tHeader, toks |-> <<>>],
        [txt |-> "", toks |-> <<
                    <<"1", "-", "B", "O", "V", "E", "S", "P", "A">>, <<"V">>,
                    <<"V", "I", "S", "T", "A">>, <<"P", "E", "T", "R", "4">>,
                    <<"O", "N">>, <<"1", "0">>, <<"5", "0", ",", "0", "0">>,
                    <<"5", "0", "0", ",", "0", "0">>, <<"C">>>>] >>]

\* A spot note of ITAU: its summary block starts with "Resumo de negocios".
PgItau ==
    [date |-> 1, sigs |-> {"ITAU"}, invoice |-> "55",
     lines |-> <<
        [txt |-> tStart, toks |-> <<>>],
        [txt |-> tHeader, toks |-> <<>>],
        [txt |-> "", toks |-> <<
                    <<"1", "-", "B", "O", "V", "E", "S", "P", "A">>, <<"V">>,
                    <<"V", "I", "S", "T", "A">>, <<"P", "E", "T", "R", "4">>,
                    <<"O", "N">>, <<"1", "0">>, <<"5", "0", ",", "0", "0">>,
                    <<"5", "0", "0", ",", "0", "0">>, <<"C">>>>],
        [txt |-> tResumoDe, toks |-> <<>>],
        [txt |-> tValorOp, toks |-> <<<<"5", "0", "0", ",", "0", "0">>,
                    <<"D">>>>],
        [txt |-> tCorretagem, toks |-> <<<<"2", ",", "5", "0">>, <<"D">>>>] >>]

\* A futures page of XP whose first summary block holds two numbers only.
PgFutShort ==
    [date |-> 1, sigs |-> {"XP"}, invoice |-> "733613",
     lines |-> <<
        [txt |-> tBmfHeader, toks |-> <<>>],
        [txt |-> "", toks |-> <<<<"V">>, <<"W", "I", "N">>,
                    <<"Q", "2", "1">>,
                    <<"1", "8", "/", "0", "8", "/", "2", "0", "2", "1">>,
                    <<"1">>, <<"1", "0", "0", ",", "0", "0">>,
                    <<"N", "O", "R", "M", "A", "L">>,
                    <<"3", "0", ",", "0", "0">>, <<"D">>,
                    <<"0", ",", "1", "0">>>>],
        [txt |-> tBmfL0, toks |-> <<>>],
        [txt |-> "", toks |-> <<<<"0", ",", "0", "0">>,
                    <<"7", ",", "0", "0">>>>] >>]

\* A futures page of XP with five label lines.
PgFutFive ==
    [date |-> 1, sigs |-> {"XP"}, invoice |-> "733614",
     lines |-> <<
        [txt |-> tBmfHeader, toks |-> <<>>],
        [txt |-> tBmfL0, toks |-> <<>>],
        [txt |-> "", toks |-> <<<<"0", ",", "0", "0">>,
                    <<"0", ",", "0", "0">>, <<"0", ",", "0", "0">>,
                    <<"0", ",", "0", "0">>,
                    <<"1", "0", "0", ",", "0", "0">>>>],
        [txt |-> tBmfL1, toks |-> <<>>],
        [txt |-> tBmfL2, toks |-> <<>>],
        [txt |-> tBmfL3, toks |-> <<>>],
        [txt |-> tValorOp, toks |-> <<<<"1", "0", "0", ",", "0", "0">>>>] >>]

\* A futures note of BTG in the layout of BMFParser, with a negative
\* quantity and a negative amount.
PgFutBTG ==
    [date |-> 1, sigs |-> {"BTG"}, invoice |-> "77",
     lines |-> <<
        [txt |-> tBmfHeader, toks |-> <<>>],
        [txt |-> "", toks |-> <<<<"C">>, <<"D", "O", "L">>,
                    <<"1", "8", "/", "0", "8", "/", "2", "0", "2", "1">>,
                    <<"-", "2">>, <<"1", "0", "0", ",", "0", "0">>,
                    <<"N", "O", "R", "M", "A", "L">>,
                    <<"-", "5", "0", ",", "0", "0">>, <<"D">>,
                    <<"0", ",", "1", "0">>>>],
        [txt |-> tBmfL2, toks |-> <<>>],
        [txt |-> "", toks |-> <<<<"0", ",", "0", "0">>,
                    <<"0", ",", "0", "0">>, <<"0", ",", "0", "0">>,
                    <<"0", ",", "0", "0">>, <<"0", ",", "1", "0">>>>] >>]

\* The pages the documents of the extraction runs are made of.
\* The line "B3 RV LISTADO C VISTA PETR4 100 28,50 2850,00 D".
LineB3 ==
    [txt |-> "", toks |-> <<
        <<"B", "3">>, <<"R", "V">>, <<"L", "I", "S", "T", "A", "D", "O">>,
        <<"C">>, <<"V", "I", "S", "T", "A">>, <<"P", "E", "T", "R", "4">>,
        <<"1", "0", "0">>, <<"2", "8", ",", "5", "0">>,
        <<"2", "8", "5", "0", ",", "0", "0">>, <<"D">>>>]

\* A spot page of BTG that holds the start marker, the line LineB3 and the
\* end marker, without the header of the trade table.
PgB3Btg ==
    [date |-> 1, sigs |-> {"BTG"}, invoice |-> "77",
     lines |-> << [txt |-> tStart, toks |-> <<>>], LineB3,
                  [txt |-> tResumoDos, toks |-> <<>>] >>]

\* The same page of AGORA, whose layout has the direction as fourth token.
PgB3Agora ==
    [date |-> 1, sigs |-> {"AGORA"}, invoice |-> "77",
     lines |-> << [txt |-> tStart, toks |-> <<>>], LineB3,
                  [txt |-> tResumoDos, toks |-> <<>>] >>]

\* The page of AGORA with the marker as the profile of AGORA spells it and
\* with the header of the trade table.
PgB3AgoraHdr ==
    [date |-> 1, sigs |-> {"AGORA"}, invoice |-> "77",
     lines |-> << [txt |-> tStartAg, toks |-> <<>>],
                  [txt |-> tHeader, toks |-> <<>>], LineB3,
                  [txt |-> tResumoDos, toks |-> <<>>] >>]

\* A spot page of BTG whose summary declares "Valor das operacoes 500,00"
\* with no letter and, on the next line, "Corretagem ... R$ 15,00".
PgNoLetter ==
    [date |-> 1, sigs |-> {"BTG"}, invoice |-> "88",
     lines |-> <<
        [txt |-> tResumoDos, toks |-> <<>>],
        [txt |-> tValorOp, toks |-> <<<<"5", "0", "0", ",", "0", "0">>>>],
        [txt |-> tCorretagem, toks |-> <<<<".", ".", ".">>, <<"R", "$">>,
                    <<"1", "5", ",", "0", "0">>>>] >>]

\* The page PgSpotA of a broker that has no profile: no signature.
PgNoSignature == [PgSpotA EXCEPT !.sigs = {}, !.invoice = "321"]

\* A spot note of BTG whose trade table holds, between two trade lines, a
\* line whose quantity is no integer and a line of two tokens.
PgSpotMalformed ==
    [date |-> 1, sigs |-> {"BTG"}, invoice |-> "126",
     lines |-> <<
        [txt |-> tStart, toks |-> <<>>],
        [txt |-> tHeader, toks |-> <<>>],
        [txt |-> "", toks |-> <<
                    <<"1", "-", "B", "O", "V", "E", "S", "P", "A">>, <<"V">>,
                    <<"V", "I", "S", "T", "A">>, <<"P", "E", "T", "R", "4">>,
                    <<"O", "N">>, <<"1", "0">>, <<"5", "0", ",", "0", "0">>,
                    <<"5", "0", "0", ",", "0", "0">>, <<"C">>>>],
        [txt |-> "", toks |-> <<
                    <<"1", "-", "B", "O", "V", "E", "S", "P", "A">>, <<"V">>,
                    <<"V", "I", "S", "T", "A">>, <<"P", "E", "T", "R", "4">>,
                    <<"O", "N">>, <<"1", "x">>, <<"5", "0", ",", "0", "0">>,
                    <<"5", "0", "0", ",", "0", "0">>, <<"C">>>>],
        [txt |-> "", toks |-> <<<<"O", "N">>, <<"C">>>>],
        [txt |-> "", toks |-> <<
                    <<"1", "-", "B", "O", "V", "E", "S", "P", "A">>, <<"C">>,
                    <<"V", "I", "S", "T", "A">>, <<"V", "A", "L", "E", "3">>,
                    <<"O", "N">>, <<"2", "0">>, <<"1", "0", ",", "0", "0">>,
                    <<"2", "0", "0", ",", "0", "0">>, <<"D">>>>],
        [txt |-> tResumoDos, toks |-> <<>>] >>]

\* A futures note of XP whose second trade line has a quantity that is no
\* integer.
PgFutXPMalformed ==
    [date |-> 1, sigs |-> {"XP"}, invoice |-> "733613",
     lines |-> <<
        [txt |-> tBmfHeader, toks |-> <<>>],
        [txt |-> "", toks |-> <<<<"C">>, <<"W", "I", "N">>,
                    <<"Q", "2", "1">>,
                    <<"1", "8", "/", "0", "8", "/", "2", "0", "2", "1">>,
                    <<"1">>, <<"1", "0", "0", ",", "0", "0">>,
                    <<"N", "O", "R", "M", "A", "L">>,
                    <<"3", "0", ",", "0", "0">>, <<"C">>,
                    <<"0", ",", "1", "0">>>>],
        [txt |-> "", toks |-> <<<<"V">>, <<"W", "I", "N">>,
                    <<"Q", "2", "1">>,
                    <<"1", "8", "/", "0", "8", "/", "2", "0", "2", "1">>,
                    <<"1", "x">>, <<"1", "0", "0", ",", "0", "0">>,
                    <<"N", "O", "R", "M", "A", "L">>,
                    <<"4", "0", ",", "0", "0">>, <<"D">>,
                    <<"0", ",", "1", "0">>>>],
        [txt |-> "", toks |-> <<<<"V">>, <<"W", "I", "N">>,
                    <<"Q", "2", "1">>,
                    <<"1", "8", "/", "0", "8", "/", "2", "0", "2", "1">>,
                    <<"3">>, <<"1", "0", "0", ",", "0", "0">>,
                    <<"N", "O", "R", "M", "A", "L">>,
                    <<"5", "0", ",", "0", "0">>, <<"D">>,
                    <<"0", ",", "1", "0">>>>] >>]

\* A futures page of ITAU: the header of the futures table and a trade
\* line of the futures layout.
PgFutItau ==
    [date |-> 1, sigs |-> {"ITAU"}, invoice |-> "56",
     lines |-> <<[txt |-> tBmfHeader, toks |-> <<>>], PgUnknown.lines[1]>>]

ParseCatalog ==
    {PgSpotA, PgSpotNeg, PgSpotNoResumo, PgItau, PgFutXP, PgFutShort,
     PgFutFive, PgFutBTG, PgUnknown, PgB3Btg, PgB3Agora, PgB3AgoraHdr,
     PgNoLetter, PgNoSignature, PgSpotMalformed, PgFutXPMalformed,
     PgFutItau}

\* The mark printed on the n-th page of a file of the splitting runs.
PageMark == <<"p1", "p2", "p3", "p4", "p5", "p6", "p7", "p8">>

\* A page that shows a date, the wording of one line and its mark.
TagPage(n, date, txt) ==
    [date |-> date, sigs |-> {}, invoice |-> PageMark[n],
     lines |-> <<[txt |-> txt, toks |-> <<>>]>>]

\* What a page of the splitting runs shows: no date or one of two dates,
\* and a spot wording, a futures wording or neither.
TagKinds == {NoDate, 1, 2} \X {tResumoDos, tBmfHeader, ""}


\* ------------------------------------------------------------------------
\* State
\* ------------------------------------------------------------------------

VARIABLES
    dir,            \* the files of the processed directory, in listing order
    split_by_date_temp, \* the split directory: file name -> pages
    pc,             \* the stage of process_directory
    fi,             \* prepare_files_for_processing: index of the next file
    files_to_process, \* prepare_files_for_processing: the paths so far
    di,             \* process_pdfs: index of the next path
    all_trades,     \* process_pdfs
    all_summaries,  \* process_pdfs
    trade,          \* process_pdfs: the loop variable, <<>> while unbound
    matched_parser, \* process_pdfs: class of the last matched parser
    result,         \* process_pdfs: the last value of parse_pdf
    df_trades,      \* process_directory
    df_summary,     \* process_directory
    df_consistency, \* process_directory
    run,            \* number of the current call of process_directory
    first,          \* what the first call returned
    processing_status, \* app.py: user id -> status
    upload_folder,  \* app.py: the files of UPLOAD_FOLDER, name -> content
    generated_file, \* app.py: app.config['GENERATED_FILE']
    requests,       \* app.py: the upload POSTs and their background tasks
    downloads,      \* app.py: the /download request of each user
    anonymized      \* app.py: the POSTs to /anonymize so far

vars == <<dir, split_by_date_temp, pc, fi, files_to_process, di, all_trades,
          all_summaries, trade, matched_parser, result, df_trades,
          df_summary, df_consistency, run, first, processing_status,
          upload_folder, generated_file, requests, downloads, anonymized>>

\* The state of the web application.
appvars == <<processing_status, upload_folder, generated_file, requests,
             downloads, anonymized>>

\* The state of a call of process_directory.
pipevars == <<dir, split_by_date_temp, pc, fi, files_to_process, di,
              all_trades, all_summaries, trade, matched_parser, result,
              df_trades, df_summary, df_consistency, run, first>>

\* The users of the application.
Users == {"u1", "u2"}

\* A folder without files, a dictionary without keys.
NoFiles == [n \in {} |-> 0]

\* OUTPUT_FILE_BASE + '.xlsx', the default of
\* app.config.get('GENERATED_FILE', ...). A file name is a pair: the
\* prefix before the name the client gave ("" or "anon_") and that name,
\* or "trades_output" and the CPF of the workbook's name.
DefaultOutput == <<"trades_output", "">>

\* The application after start-up: processing_status = {}, an empty
\* UPLOAD_FOLDER, no GENERATED_FILE in app.config, no request.
AppStart ==
    /\ processing_status = NoFiles
    /\ upload_folder = NoFiles
    /\ generated_file = DefaultOutput
    /\ requests = <<>>
    /\ downloads = [u \in Users |-> [pc |-> "none", name |-> DefaultOutput]]
    /\ anonymized = 0

NoFirst == [pc |-> "", df_trades |-> <<>>, df_summary |-> <<>>,
            df_consistency |-> <<>>]

\* The files a page sequence is cut into: cuts holds the indexes after
\* which a new file begins; unreadable holds the numbers of the files that
\* pdfplumber cannot open.
FilesOf(ps, cuts, unreadable) ==
    LET starts == {1} \cup {c + 1 : c \in cuts}
        nth(k) == CHOOSE x \in starts : Cardinality({y \in starts : y < x}) = k - 1
        stop(k) == IF k = Cardinality(starts) THEN Len(ps) ELSE nth(k + 1) - 1
    IN  IF Len(ps) = 0 THEN <<>>
        ELSE [k \in 1..Cardinality(starts) |->
                 [name |-> k, readable |-> k \notin unreadable,
                  pages |-> SubSeq(ps, nth(k), stop(k))]]

\* The locals of a call of process_directory before it starts.
Fresh ==
    /\ pc = "Idle"
    /\ fi = 1
    /\ files_to_process = <<>>
    /\ di = 1
    /\ all_trades = <<>>
    /\ all_summaries = <<>>
    /\ trade = <<>>
    /\ matched_parser = "None"
    /\ result = Raised
    /\ df_trades = <<>>
    /\ df_summary = <<>>
    /\ df_consistency = <<>>

\* A directory of up to MaxBatchPages pages in all; the split directory is
\* empty (the module removes it when it is imported).
Init ==
    /\ \E n \in 0..MaxBatchPages : \E ps \in [1..n -> Catalog] :
         \E cuts \in SUBSET (1..(n - 1)) :
           \E unreadable \in SUBSET (1..(Cardinality(cuts) + 1)) :
             dir = FilesOf(ps, cuts, unreadable)
    /\ split_by_date_temp = <<>>
    /\ Fresh
    /\ run = 1
    /\ first = NoFirst
    /\ AppStart

\* The pages pdfplumber reads from a path.
Content(path) ==
    IF path.dir = "upload"
    THEN dir[CHOOSE i \in 1..Len(dir) : dir[i].name = path.name[1]].pages
    ELSE split_by_date_temp[path.name]

\* Whether pdfplumber.open succeeds on a path.
Opens(path) ==
    IF path.dir = "upload"
    THEN dir[CHOOSE i \in 1..Len(dir) : dir[i].name = path.name[1]].readable
    ELSE TRUE

\* ------------------------------------------------------------------------
\* Actions
\* ------------------------------------------------------------------------

\* process_directory up to the call of prepare_files_for_processing: with
\* no PDF file it returns an empty data frame at once.
Start ==
    /\ pc = "Idle"
    /\ pc' = IF dir = <<>> THEN "Done" ELSE "Splitting"
    /\ UNCHANGED appvars
    /\ UNCHANGED <<dir, split_by_date_temp, fi, files_to_process, di,
                   all_trades, all_summaries, trade, matched_parser, result,
                   df_trades, df_summary, df_consistency, run, first>>

\* One turn of the loop of prepare_files_for_processing. Nothing catches
\* what extract_date_and_type_per_page raises on an unreadable file: the
\* call of process_directory ends with that exception.
SplitFile ==
    /\ pc = "Splitting"
    /\ fi <= Len(dir)
    /\ IF ~dir[fi].readable
       THEN /\ pc' = "Aborted"
            /\ UNCHANGED <<split_by_date_temp, fi, files_to_process>>
       ELSE /\ files_to_process' = files_to_process \o FilePaths(dir[fi])
            /\ split_by_date_temp' = DiskAfter(split_by_date_temp, dir[fi])
            /\ fi' = fi + 1
            /\ pc' = IF fi = Len(dir) THEN "PerDocument" ELSE "Splitting"
    /\ UNCHANGED appvars
    /\ UNCHANGED <<dir, di, all_trades, all_summaries, trade, matched_parser,
                   result, df_trades, df_summary, df_consistency, run, first>>

\* The row process_pdfs appends to all_summaries.
SummaryRow(r, t) ==
    [invoice |-> r.invoice, broker |-> r.broker, Tipo |-> t.Tipo,
     vals |-> r.summary.vals, flags |-> r.summary.flags]

\* What one turn of the loop leaves: the parser class, the value of
\* parse_pdf, the rows appended to all_trades, the loop variable trade and
\* all_summaries.
StepOf(m, r, rows, last) ==
    [matched_parser |-> m.class,
     result         |-> IF m.class = "None" THEN result ELSE r,
     rows           |-> rows,
     trade          |-> last,
     all_summaries  |-> IF r.ok /\ last # <<>>
                        THEN Append(all_summaries, SummaryRow(r, last[1]))
                        ELSE all_summaries]

StepRows(m, r, rows) ==
    StepOf(m, r, rows, IF rows = <<>> THEN trade ELSE <<rows[Len(rows)]>>)

StepParsed(m, r) ==
    StepRows(m, r, [i \in 1..Len(r.trades) |-> TradeRow(r.trades[i], r)])

StepMatched(m, pages) ==
    StepParsed(m, IF m.class = "None" THEN Raised
                  ELSE parse_pdf(m.class, m.broker, pages))

\* The turn for a path: pdfplumber.open raising leaves everything as it was.
DocStep(path) ==
    IF ~Opens(path)
    THEN [matched_parser |-> matched_parser, result |-> result, rows |-> <<>>,
          trade |-> trade, all_summaries |-> all_summaries]
    ELSE StepMatched(MatchParser(Content(path)), Content(path))

Accumulate(step) ==
    /\ matched_parser' = step.matched_parser
    /\ result' = step.result
    /\ all_trades' = all_trades \o step.rows
    /\ trade' = step.trade
    /\ all_summaries' = step.all_summaries

\* One turn of the loop of process_pdfs, with its try/except: whatever is
\* raised for the document is caught and the loop goes on.
ProcessDoc ==
    /\ pc = "PerDocument"
    /\ di <= Len(files_to_process)
    /\ Accumulate(DocStep(files_to_process[di]))
    /\ di' = di + 1
    /\ pc' = IF di = Len(files_to_process) THEN "Aggregating" ELSE "PerDocument"
    /\ UNCHANGED appvars
    /\ UNCHANGED <<dir, split_by_date_temp, fi, files_to_process, df_trades,
                   df_summary, df_consistency, run, first>>

\* The "<key> AAAA" columns that are empty in every row are dropped.
DropEmptyFlags(rows) ==
    LET used == {k \in UNION {DOMAIN rows[i].flags : i \in 1..Len(rows)} :
                    \E i \in 1..Len(rows) :
                        k \in DOMAIN rows[i].flags /\ rows[i].flags[k] # ""}
    IN  [i \in 1..Len(rows) |->
            [rows[i] EXCEPT !.flags =
                [k \in used \cap DOMAIN rows[i].flags |-> rows[i].flags[k]]]]

\* process_directory from the data frame of the trades to the clean-up of
\* the summary columns.
Aggregate ==
    /\ pc = "Aggregating"
    /\ df_trades' =
          [i \in 1..Len(all_trades) |->
              all_trades[i] @@
              [valor_trades |-> valor_trades(all_trades[i]),
               valor_trades_consistency |->
                   valor_trades_consistency(all_trades[i])]]
    /\ df_summary' = DropEmptyFlags(all_summaries)
    /\ pc' = "Reconciling"
    /\ UNCHANGED appvars
    /\ UNCHANGED <<dir, split_by_date_temp, fi, files_to_process, di,
                   all_trades, all_summaries, trade, matched_parser, result,
                   df_consistency, run, first>>

\* process_directory: the consistency table. Grouping a trade table that
\* has no column (no trade at all) while a summary row exists raises.
Reconcile ==
    /\ pc = "Reconciling"
    /\ IF df_trades = <<>> /\ df_summary # <<>>
       THEN /\ pc' = "Aborted"
            /\ UNCHANGED df_consistency
       ELSE /\ df_consistency' = Consistency(df_trades, df_summary)
            /\ pc' = "Done"
    /\ UNCHANGED appvars
    /\ UNCHANGED <<dir, split_by_date_temp, fi, files_to_process, di,
                   all_trades, all_summaries, trade, matched_parser, result,
                   df_trades, df_summary, run, first>>

\* process_directory is called again on the unchanged directory: the
\* locals are new, the split directory is as the first call left it.
Rerun ==
    /\ pc \in {"Done", "Aborted"}
    /\ run = 1
    /\ first' = [pc |-> pc, df_trades |-> df_trades, df_summary |-> df_summary,
                 df_consistency |-> df_consistency]
    /\ run' = 2
    /\ pc' = "Idle"
    /\ fi' = 1
    /\ files_to_process' = <<>>
    /\ di' = 1
    /\ all_trades' = <<>>
    /\ all_summaries' = <<>>
    /\ trade' = <<>>
    /\ matched_parser' = "None"
    /\ result' = Raised
    /\ df_trades' = <<>>
    /\ df_summary' = <<>>
    /\ df_consistency' = <<>>
    /\ UNCHANGED appvars
    /\ UNCHANGED <<dir, split_by_date_temp>>

Next == Start \/ SplitFile \/ ProcessDoc \/ Aggregate \/ Reconcile \/ Rerun

Spec == Init /\ [][Next]_vars

\* ------------------------------------------------------------------------
\* Splitting runs: prepare_files_for_processing on one file
\* ------------------------------------------------------------------------

InitSplit ==
    /\ \E n \in 1..MaxTagPages : \E tags \in [1..n -> TagKinds] :
         dir = FilesOf([i \in 1..n |-> TagPage(i, tags[i][1], tags[i][2])],
                       {}, {})
    /\ split_by_date_temp = <<>>
    /\ Fresh
    /\ run = 1
    /\ first = NoFirst
    /\ AppStart

NextSplit == Start \/ SplitFile

SplitSpec == InitSplit /\ [][NextSplit]_vars

\* ------------------------------------------------------------------------
\* Extraction runs: process_pdfs on one document, and the summary
\* extractor of each parser class called on its text
\* ------------------------------------------------------------------------

\* The parser classes of the module.
PARSER_CLASSES ==
    {"AVistaParser", "XPAvistaParser", "BTGAvistaParser",
     "BMFParser", "XPBMFParser", "BTGBMFParser"}

InitParse ==
    /\ \E n \in 1..MaxDocPages : \E ps \in [1..n -> ParseCatalog] :
         /\ dir = FilesOf(ps, {}, {})
         /\ files_to_process = <<SourcePath(FilesOf(ps, {}, {})[1])>>
    /\ split_by_date_temp = <<>>
    /\ pc = "PerDocument"
    /\ fi = 2
    /\ di = 1
    /\ all_trades = <<>>
    /\ all_summaries = <<>>
    /\ trade = <<>>
    /\ matched_parser = "None"
    /\ result = Raised
    /\ df_trades = <<>>
    /\ df_summary = <<>>
    /\ df_consistency = <<>>
    /\ run = 1
    /\ first = NoFirst
    /\ AppStart

\* parser._extract_summary_values for a parser of any class and profile,
\* on the document.
SummaryCall ==
    /\ pc = "PerDocument"
    /\ di = 1
    /\ \E parser_class \in PARSER_CLASSES : \E c \in 1..Len(PARSERS) :
         /\ matched_parser' = parser_class
         /\ result' = [Raised EXCEPT
                          !.ok = TRUE,
                          !.broker = PARSERS[c],
                          !.summary = extract_summary_values(
                                          parser_class, PARSERS[c], dir[1].pages)]
    /\ pc' = "Returned"
    /\ UNCHANGED appvars
    /\ UNCHANGED <<dir, split_by_date_temp, fi, files_to_process, di,
                   all_trades, all_summaries, trade, df_trades, df_summary,
                   df_consistency, run, first>>

NextParse == ProcessDoc \/ SummaryCall

ParseSpec == InitParse /\ [][NextParse]_vars

\* ------------------------------------------------------------------------
\* Staged runs: process_directory with the turn of process_pdfs for a
\* document taken stage by stage
\* ------------------------------------------------------------------------

\* A loop that leaves for the aggregation after any document.
AggregatingAtOnce(i) == "Aggregating"

\* Where process_pdfs goes after the i-th path: to the next path, or back
\* to process_directory after the last.
NextDocStage(i) ==
    IF i = Len(files_to_process) THEN "Aggregating" ELSE "PerDocument"

\* self._extract_trades as the class resolves it.
ExtractedTrades(parser_class, broker, lines) ==
    IF IsAVistaParser(parser_class)
    THEN GenericParser_extract_trades(broker, lines)
    ELSE IF parser_class = "XPBMFParser"
    THEN XPBMFParser_extract_trades(lines)
    ELSE BMFParser_extract_trades(lines)

\* The dictionary parse_pdf is building once the trades are extracted.
WithTrades(parser_class, broker, pages) ==
    [ok |-> FALSE, broker |-> broker, invoice |-> DocInvoice(pages),
     date |-> DocDate(pages),
     trades |-> ExtractedTrades(parser_class, broker, LinesOf(pages)),
     summary |-> NoSummary]

\* The text is read and the profiles are tried in table order. A path that
\* does not open, or a text with no signature, ends the turn.
DocMatch ==
    /\ pc = "PerDocument"
    /\ di <= Len(files_to_process)
    /\ IF Opens(files_to_process[di])
       THEN /\ matched_parser' = "None"
            /\ IF FirstBroker(Content(files_to_process[di])) # ""
               THEN pc' = "Classifying" /\ di' = di
               ELSE pc' = NextDocStage(di) /\ di' = di + 1
       ELSE /\ matched_parser' = matched_parser
            /\ pc' = NextDocStage(di)
            /\ di' = di + 1
    /\ UNCHANGED appvars
    /\ UNCHANGED <<dir, split_by_date_temp, fi, files_to_process, all_trades,
                   all_summaries, trade, result, df_trades, df_summary,
                   df_consistency, run, first>>

\* classify_invoice_type on the text and the parser of the class found
\* for the profile and the kind.
DocClassify ==
    /\ pc = "Classifying"
    /\ matched_parser' = MatchParser(Content(files_to_process[di])).class
    /\ pc' = "ExtractingTrades"
    /\ UNCHANGED appvars
    /\ UNCHANGED <<dir, split_by_date_temp, fi, files_to_process, di,
                   all_trades, all_summaries, trade, result, df_trades,
                   df_summary, df_consistency, run, first>>

\* parse_pdf up to the trades of its dictionary.
DocTrades ==
    /\ pc = "ExtractingTrades"
    /\ result' = WithTrades(matched_parser,
                            FirstBroker(Content(files_to_process[di])),
                            Content(files_to_process[di]))
    /\ pc' = "ExtractingSummary"
    /\ UNCHANGED appvars
    /\ UNCHANGED <<dir, split_by_date_temp, fi, files_to_process, di,
                   all_trades, all_summaries, trade, matched_parser,
                   df_trades, df_summary, df_consistency, run, first>>

\* The summary of the dictionary, the return of parse_pdf and the rest of
\* the turn; what the summary extractor raises ends the turn.
DocSummary ==
    /\ pc = "ExtractingSummary"
    /\ Accumulate(StepMatched(MatchParser(Content(files_to_process[di])),
                              Content(files_to_process[di])))
    /\ di' = di + 1
    /\ pc' = NextDocStage(di)
    /\ UNCHANGED appvars
    /\ UNCHANGED <<dir, split_by_date_temp, fi, files_to_process, df_trades,
                   df_summary, df_consistency, run, first>>

NextStage ==
    \/ Start \/ SplitFile
    \/ DocMatch \/ DocClassify \/ DocTrades \/ DocSummary
    \/ Aggregate \/ Reconcile

StageSpec == Init /\ [][NextStage]_vars

\* ------------------------------------------------------------------------
\* Classification runs: the splitter on one page of any text
\* ------------------------------------------------------------------------

\* The wordings of the lines of the text: spot markers, futures headers
\* and labels, a line that names a maturity, a line that names a position
\* adjustment, and a line of no phrase.
ClassWordings ==
    {tStart, tResumoDos, tBmfHeader, tBmfL1, tBmfL2, tVencimento,
     tAjustePos, tCorretagem}

\* A directory of one file of one dated page of up to MaxTextLines lines.
InitClass ==
    /\ \E n \in 1..MaxTextLines : \E ws \in [1..n -> ClassWordings] :
         dir = FilesOf(<<[date |-> 1, sigs |-> {}, invoice |-> "p1",
                          lines |-> [i \in 1..n |->
                                        [txt |-> ws[i], toks |-> <<>>]]]>>,
                       {}, {})
    /\ split_by_date_temp = <<>>
    /\ Fresh
    /\ run = 1
    /\ first = NoFirst
    /\ AppStart

ClassSpec == InitClass /\ [][NextSplit]_vars

\* ------------------------------------------------------------------------
\* Reconciliation runs: process_directory from the lists process_pdfs
\* returned
\* ------------------------------------------------------------------------

\* A trade of a note of BTG as process_pdfs appends it.
TableTrade(invoice, tipo, valor, dc) ==
    [Tipo |-> tipo, Negociacao |-> NoTok, CV |-> <<"C">>,
     TipoMercado |-> NoTok, Titulo |-> NoTok, Vencimento |-> NoTok,
     Quantidade |-> 1, Preco |-> valor, TipoNegocio |-> NoTok,
     Valor |-> valor, DC |-> dc, TaxaOperacional |-> 0,
     broker |-> "BTG", date |-> 1, invoice |-> invoice, client_cpf |-> ""]

\* The trades of the reconciliation runs: 100,00 and 50,00, spot and
\* futures, of the notes 1 and 2.
TableTrades ==
    {TableTrade("1", "A Vista", 100000, <<"C">>),
     TableTrade("1", "A Vista", 50000, <<"D">>),
     TableTrade("1", "BM&F", 100000, <<"D">>),
     TableTrade("2", "A Vista", 50000, <<"D">>)}

\* A summary row of a note of BTG that declares a gross value.
TableSummary(invoice, tipo, declared) ==
    [invoice |-> invoice, broker |-> "BTG", Tipo |-> tipo,
     vals |-> [k \in {"Valor das operacoes"} |-> declared],
     flags |-> [k \in {"Valor das operacoes"} |-> ""]]

\* The summary rows of the reconciliation runs: the notes 1 and 3.
TableSummaries ==
    {TableSummary("1", "A Vista", 100009),
     TableSummary("1", "A Vista", 100000),
     TableSummary("1", "BM&F", 100000),
     TableSummary("3", "A Vista", 50000)}

\* process_pdfs returned up to MaxTableRows trades and as many summary
\* rows. It appends a summary row only once a trade is bound, and a
\* document that has trades has a summary row: one list is empty only when
\* the other is.
InitRecon ==
    /\ \E n \in 0..MaxTableRows : \E m \in 0..MaxTableRows :
         /\ n = 0 <=> m = 0
         /\ all_trades \in [1..n -> TableTrades]
         /\ all_summaries \in [1..m -> TableSummaries]
    /\ dir = <<>>
    /\ split_by_date_temp = <<>>
    /\ pc = "Aggregating"
    /\ fi = 1
    /\ files_to_process = <<>>
    /\ di = 1
    /\ trade = <<>>
    /\ matched_parser = "None"
    /\ result = Raised
    /\ df_trades = <<>>
    /\ df_summary = <<>>
    /\ df_consistency = <<>>
    /\ run = 1
    /\ first = NoFirst
    /\ AppStart

NextRecon == Aggregate \/ Reconcile

ReconSpec == InitRecon /\ [][NextRecon]_vars

\* ------------------------------------------------------------------------
\* The web application (src/app.py): uploads, background tasks, downloads
\* and the /anonymize route, over one UPLOAD_FOLDER
\* ------------------------------------------------------------------------

\* The upload POSTs of a run.
MaxUploads == 2

\* The POSTs to /anonymize of a run.
MaxAnonymize == 1

\* The names the clients give to their PDF files. A file of a POST whose
\* name does not end with ".pdf" is not saved, so a POST is the set of its
\* PDF names, empty when it carries no PDF.
PdfNames == {"a.pdf", "b.pdf"}

\* The name of the file given to /anonymize: an upload may carry it too.
AnonNames == {"a.pdf"}

\* What process_directory makes of a PDF: a note with trades, a file that
\* opens and gives no trade and no summary, a file that does not open.
Kinds == {"note", "blank", "corrupt"}

\* The CPF printed on the notes a user uploads.
CpfOf(u) == IF u = "u1" THEN "111" ELSE "222"

\* The CPF the /anonymize route prints (111.111.111-11) and the CPF of the
\* note it was given.
AnonCpf == "11111111111"

GivenCpf == "333"

\* f.lower().endswith(".pdf") for the names of the folder.
IsPdf(name) == name[1] \in {"", "anon_"}

\* os.path.join("tmp", f"trades_output - {cpf_value}.xlsx")
OutputName(cpf) == <<"trades_output", cpf>>

\* d[k] = v of a dictionary, file.save(path) of a folder.
Put(f, k, v) == (k :> v) @@ f

\* A PDF saved by request req (0 for the /anonymize route).
Pdf(kind, req, cpf) == [kind |-> kind, req |-> req, cpf |-> cpf, batch |-> {}]

\* The workbook process_directory writes for the batch of request req.
Workbook(req, cpf, batch) ==
    [kind |-> "xlsx", req |-> req, cpf |-> cpf, batch |-> batch]

\* processing_status.get(user_id, "idle") of check_status.
check_status(u) ==
    IF u \in DOMAIN processing_status THEN processing_status[u] ELSE "idle"

\* upload_files, POST: the PDF files of the request are saved into
\* UPLOAD_FOLDER under the names the client gave, the status of the user
\* is set to "processing" and the background task is started.
UploadPost ==
    /\ Len(requests) < MaxUploads
    /\ \E u \in Users : \E names \in SUBSET PdfNames : \E kind \in Kinds :
         /\ upload_folder' =
               [n \in {<<"", x>> : x \in names} |->
                   Pdf(kind, Len(requests) + 1, CpfOf(u))] @@ upload_folder
         /\ processing_status' = Put(processing_status, u, "processing")
         /\ requests' = Append(requests,
               [user |-> u, saved_files |-> {<<"", x>> : x \in names},
                pc |-> "running", pdf_files |-> {}, df |-> {}, cpf |-> ""])
    /\ UNCHANGED <<generated_file, downloads, anonymized>>
    /\ UNCHANGED pipevars

\* The files of the folder a batch reads, each with the request that saved
\* it.
Listing(pdfs) == {<<n, upload_folder[n].req>> : n \in pdfs}

\* process_directory(UPLOAD_FOLDER) on the PDF files pdfs of the folder, the
\* trades of the notes among them in the table: no PDF returns an empty
\* table at once; a file that does not open ends the call with its
\* exception; otherwise the workbook is written into the folder, named
\* after the CPF of the first trade ("unknown" when there is no trade) and
\* the table is returned. The first trade is of any note: os.listdir gives
\* the files in arbitrary order.
ProcessDirectory(r, pdfs, notes) ==
    IF pdfs = {}
    THEN /\ requests' = [requests EXCEPT ![r].pc = "returned"]
         /\ UNCHANGED upload_folder
    ELSE IF \E n \in pdfs : upload_folder[n].kind = "corrupt"
    THEN /\ requests' = [requests EXCEPT ![r].pc = "raised",
                                         ![r].pdf_files = Listing(pdfs)]
         /\ UNCHANGED upload_folder
    ELSE IF notes = {}
    THEN /\ requests' = [requests EXCEPT ![r].pc = "returned",
                                         ![r].pdf_files = Listing(pdfs)]
         /\ upload_folder' = Put(upload_folder, OutputName("unknown"),
                                 Workbook(r, "unknown", Listing(pdfs)))
    ELSE \E first_note \in notes :
           /\ requests' = [requests EXCEPT
                              ![r].pc = "returned",
                              ![r].pdf_files = Listing(pdfs),
                              ![r].df = Listing(notes),
                              ![r].cpf = upload_folder[first_note].cpf]
           /\ upload_folder' =
                 Put(upload_folder, OutputName(upload_folder[first_note].cpf),
                     Workbook(r, upload_folder[first_note].cpf, Listing(pdfs)))

NotesOf(pdfs) == {n \in pdfs : upload_folder[n].kind = "note"}

\* background_task: df = TradeProcessor.process_directory(UPLOAD_FOLDER)
TaskProcess ==
    /\ \E r \in 1..Len(requests) :
         /\ requests[r].pc = "running"
         /\ ProcessDirectory(r, {n \in DOMAIN upload_folder : IsPdf(n)},
                NotesOf({n \in DOMAIN upload_folder : IsPdf(n)}))
    /\ UNCHANGED <<processing_status, generated_file, downloads, anonymized>>
    /\ UNCHANGED pipevars

\* A task that reports "ready" whatever process_directory gave.
TaskFinishAlwaysReady ==
    /\ \E r \in 1..Len(requests) :
         /\ requests[r].pc \in {"returned", "raised"}
         /\ generated_file' = OutputName(requests[r].cpf)
         /\ processing_status' = Put(processing_status, requests[r].user, "ready")
         /\ requests' = [requests EXCEPT ![r].pc = "finished"]
    /\ UNCHANGED <<upload_folder, downloads, anonymized>>
    /\ UNCHANGED pipevars

\* background_task after process_directory: a call that raised, or an
\* empty table (ValueError), sets the status of the user to "error";
\* otherwise app.config['GENERATED_FILE'] is set to the name of the
\* workbook and the status to "ready".
TaskFinish ==
    /\ \E r \in 1..Len(requests) :
         /\ requests[r].pc \in {"returned", "raised"}
         /\ IF requests[r].pc = "raised" \/ requests[r].df = {}
            THEN /\ processing_status' =
                       Put(processing_status, requests[r].user, "error")
                 /\ UNCHANGED generated_file
            ELSE /\ generated_file' = OutputName(requests[r].cpf)
                 /\ processing_status' =
                       Put(processing_status, requests[r].user, "ready")
         /\ requests' = [requests EXCEPT ![r].pc = "finished"]
    /\ UNCHANGED <<upload_folder, downloads, anonymized>>
    /\ UNCHANGED pipevars

\* download_file: the name is read from app.config; when the file exists
\* it is sent, otherwise the answer is 404.
DownloadSend ==
    /\ \E u \in Users :
         /\ downloads[u].pc = "none"
         /\ generated_file \in DOMAIN upload_folder
         /\ downloads' = [downloads EXCEPT
                             ![u] = [pc |-> "sent", name |-> generated_file]]
    /\ UNCHANGED <<processing_status, upload_folder, generated_file, requests,
                   anonymized>>
    /\ UNCHANGED pipevars

\* download_file, finally: the workbook and then every file of
\* UPLOAD_FOLDER are removed and the status of the downloading user is set
\* to "idle"; when the workbook is no longer there the exception of
\* os.remove is logged and nothing is cleaned.
DownloadClean ==
    /\ \E u \in Users :
         /\ downloads[u].pc = "sent"
         /\ IF downloads[u].name \in DOMAIN upload_folder
            THEN /\ upload_folder' = NoFiles
                 /\ processing_status' = Put(processing_status, u, "idle")
            ELSE UNCHANGED <<upload_folder, processing_status>>
         /\ downloads' = [downloads EXCEPT
                             ![u] = [pc |-> "none", name |-> DefaultOutput]]
    /\ UNCHANGED <<generated_file, requests, anonymized>>
    /\ UNCHANGED pipevars

\* anonymize_pdf, POST: the file is saved into UPLOAD_FOLDER, and, when it
\* opens, its anonymized copy beside it; neither is removed.
Anonymize ==
    /\ anonymized < MaxAnonymize
    /\ anonymized' = anonymized + 1
    /\ \E x \in AnonNames : \E kind \in Kinds :
         upload_folder' =
            IF kind = "corrupt"
            THEN Put(upload_folder, <<"", x>>, Pdf(kind, 0, GivenCpf))
            ELSE Put(Put(upload_folder, <<"", x>>, Pdf(kind, 0, GivenCpf)),
                     <<"anon_", x>>, Pdf(kind, 0, AnonCpf))
    /\ UNCHANGED <<processing_status, generated_file, requests, downloads>>
    /\ UNCHANGED pipevars

InitApp ==
    /\ dir = <<>>
    /\ split_by_date_temp = <<>>
    /\ Fresh
    /\ run = 1
    /\ first = NoFirst
    /\ AppStart

NextApp ==
    \/ UploadPost
    \/ TaskProcess \/ TaskFinish
    \/ DownloadSend \/ DownloadClean
    \/ Anonymize

AppSpec == InitApp /\ [][NextApp]_vars


\* ------------------------------------------------------------------------
\* Properties of the reconciliation
\* ------------------------------------------------------------------------

\* The key of a row of the consistency table.
RowKey(r) == <<r.invoice, r.broker, r.Tipo>>

\* The sum of the comparable values of the first n trades whose key is key.
RECURSIVE ComparableSum(_, _)
ComparableSum(key, n) ==
    IF n = 0 THEN 0
    ELSE ComparableSum(key, n - 1)
         + (IF RowKey(df_trades[n]) = key
            THEN df_trades[n].valor_trades_consistency ELSE 0)

\* The gross values the summaries declare for a key; 0 when no summary
\* has the key.
DeclaredFor(key) ==
    IF \A i \in 1..Len(df_summary) : RowKey(df_summary[i]) # key THEN {0}
    ELSE {df_summary[i].vals["Valor das operacoes"] :
             i \in {j \in 1..Len(df_summary) : RowKey(df_summary[j]) = key}}

\* C1: in every row of the consistency table, the difference is the sum of
\* the comparable trade values of the row's key minus the gross value
\* declared for the key, rounded to cents, and the status is OK exactly
\* when the absolute difference is below one cent; a difference of exactly
\* one cent, either way, is an inconsistency.
C1_DifferenceAndStatus ==
    pc = "Done" =>
        \A i \in 1..Len(df_consistency) :
            /\ df_consistency[i].valor_trades_consistency
                  = ComparableSum(RowKey(df_consistency[i]), Len(df_trades))
            /\ df_consistency[i].valor_das_operacoes
                  \in DeclaredFor(RowKey(df_consistency[i]))
            /\ 10 * df_consistency[i].Diferenca
                  - (df_consistency[i].valor_trades_consistency
                     - df_consistency[i].valor_das_operacoes) \in -5..5
            /\ df_consistency[i].Status \in {"OK", "Inconsistencia"}
            /\ df_consistency[i].Status = "OK" <=> df_consistency[i].Diferenca = 0

\* A table with a row whose difference is exactly one cent and that is an
\* inconsistency, and a row whose six thousandths round to one cent.
C1_Witness ==
    /\ pc = "Done"
    /\ \E i \in 1..Len(df_consistency) :
          /\ df_consistency[i].valor_trades_consistency
                - df_consistency[i].valor_das_operacoes = 10
          /\ df_consistency[i].Diferenca = 1
          /\ df_consistency[i].Status = "Inconsistencia"
    /\ \E i \in 1..Len(df_consistency) :
          /\ df_consistency[i].valor_trades_consistency
                - df_consistency[i].valor_das_operacoes = 6
          /\ df_consistency[i].Diferenca = 1
    /\ \E i \in 1..Len(df_consistency) : df_consistency[i].Status = "OK"

\* C2: the consistency table holds exactly one row for each key that occurs
\* in the trades or in the summaries, also when several documents share a
\* key.
C2_OneRowPerKey ==
    pc = "Done" =>
        /\ \A i, j \in 1..Len(df_consistency) :
              RowKey(df_consistency[i]) = RowKey(df_consistency[j]) => i = j
        /\ {RowKey(df_consistency[i]) : i \in 1..Len(df_consistency)}
              = {RowKey(df_trades[i]) : i \in 1..Len(df_trades)}
                \cup {RowKey(df_summary[i]) : i \in 1..Len(df_summary)}

\* C11, as stated: a row of the consistency table whose trade total is
\* 100,00 and whose declared total is 100,009 has the status OK.
C11_NineMillsIsOK ==
    pc = "Done" =>
        \A i \in 1..Len(df_consistency) :
            (/\ df_consistency[i].valor_trades_consistency = 100000
             /\ df_consistency[i].valor_das_operacoes = 100009)
            => df_consistency[i].Status = "OK"

\* C11, amended: a row of the consistency table whose trade total is
\* 100,00 and whose declared total is 100,009 has the difference -0,01,
\* since the nine mills round to a cent, and is an inconsistency.
C11_NineMillsIsInconsistent ==
    pc = "Done" =>
        \A i \in 1..Len(df_consistency) :
            (/\ df_consistency[i].valor_trades_consistency = 100000
             /\ df_consistency[i].valor_das_operacoes = 100009)
            => /\ df_consistency[i].Diferenca = -1
               /\ df_consistency[i].Status = "Inconsistencia"

\* The reconciliation of a trade of 100,00 with a summary that declares
\* 100,009 is done.
C11_Witness ==
    /\ pc = "Done"
    /\ \E i \in 1..Len(df_consistency) :
          /\ df_consistency[i].valor_trades_consistency = 100000
          /\ df_consistency[i].valor_das_operacoes = 100009

\* The keys of the trades and of the summaries.
TradeKeys == {RowKey(df_trades[i]) : i \in 1..Len(df_trades)}

SummaryKeys == {RowKey(df_summary[i]) : i \in 1..Len(df_summary)}

\* The rows of the consistency table that have a key.
RowsWith(key) ==
    {i \in 1..Len(df_consistency) : RowKey(df_consistency[i]) = key}

\* C12: a key that only the trades have is a row of the consistency table
\* with the declared total 0, and a key that only the summaries have is a
\* row with the trade total 0; the difference of such a row is taken
\* against that 0.
C12_OuterJoinFillsZero ==
    pc = "Done" =>
        /\ \A key \in TradeKeys \ SummaryKeys :
              /\ RowsWith(key) # {}
              /\ \A i \in RowsWith(key) :
                    /\ df_consistency[i].valor_das_operacoes = 0
                    /\ df_consistency[i].valor_trades_consistency
                          = ComparableSum(key, Len(df_trades))
                    /\ 10 * df_consistency[i].Diferenca
                          - df_consistency[i].valor_trades_consistency
                          \in -5..5
        /\ \A key \in SummaryKeys \ TradeKeys :
              /\ RowsWith(key) # {}
              /\ \A i \in RowsWith(key) :
                    /\ df_consistency[i].valor_trades_consistency = 0
                    /\ df_consistency[i].valor_das_operacoes
                          \in DeclaredFor(key)
                    /\ 10 * df_consistency[i].Diferenca
                          + df_consistency[i].valor_das_operacoes
                          \in -5..5

\* A reconciliation of a note that has trades only with a note that has a
\* summary only, either with a difference that is not zero.
C12_Witness ==
    /\ pc = "Done"
    /\ \E key \in TradeKeys \ SummaryKeys : \E i \in RowsWith(key) :
          df_consistency[i].Diferenca # 0
    /\ \E key \in SummaryKeys \ TradeKeys : \E i \in RowsWith(key) :
          df_consistency[i].Diferenca # 0

\* C3, as stated: the comparable value of a trade is minus its value when
\* the trade is a futures trade flagged "C", and its value for a futures
\* trade with any other flag and for every spot trade.
C3_NegatedOnlyForC ==
    \A i \in 1..Len(df_trades) :
        df_trades[i].valor_trades_consistency =
            IF df_trades[i].Tipo = "BM&F" /\ df_trades[i].DC = <<"C">>
            THEN -df_trades[i].Valor ELSE df_trades[i].Valor

\* C3, amended: the comparable value of a trade is minus its value when the
\* trade is a futures trade whose flag is the letter C in either case, and
\* its value for a futures trade with any other flag and for every spot
\* trade.
C3_NegatedForCOrLowerC ==
    \A i \in 1..Len(df_trades) :
        df_trades[i].valor_trades_consistency =
            IF df_trades[i].Tipo = "BM&F"
               /\ df_trades[i].DC \in {<<"C">>, <<"c">>}
            THEN -df_trades[i].Valor ELSE df_trades[i].Valor

\* Trades of the three cases together: futures flagged C, c and D, and a
\* spot trade flagged C.
C3_Witness ==
    /\ pc = "Done"
    /\ \E i \in 1..Len(df_trades) :
          /\ df_trades[i].Tipo = "BM&F" /\ df_trades[i].DC = <<"c">>
          /\ df_trades[i].Valor > 0
          /\ df_trades[i].valor_trades_consistency = -df_trades[i].Valor
    /\ \E i \in 1..Len(df_trades) :
          df_trades[i].Tipo = "BM&F" /\ df_trades[i].DC = <<"C">>
    /\ \E i \in 1..Len(df_trades) :
          df_trades[i].Tipo = "BM&F" /\ df_trades[i].DC = <<"D">>
    /\ \E i \in 1..Len(df_trades) :
          /\ df_trades[i].Tipo = "A Vista" /\ df_trades[i].DC = <<"C">>
          /\ df_trades[i].Valor > 0

\* ------------------------------------------------------------------------
\* Properties of the extraction
\* ------------------------------------------------------------------------

\* C4: every trade of the aggregated trades, whichever extractor produced
\* it, has a quantity above zero and a value of at least zero.
C4_PositiveQuantityAndValue ==
    \A i \in 1..Len(all_trades) :
        all_trades[i].Quantidade > 0 /\ all_trades[i].Valor >= 0

\* C14: the document that holds the trade-start marker, the line
\* "B3 RV LISTADO C VISTA PETR4 100 28,50 2850,00 D" and the trade-end
\* marker gives exactly one trade: direction C, type VISTA, ticker PETR4,
\* quantity 100, price 28,50, value 2850,00, dc D.
C14_OneTradeOfTheLine ==
    (di = 2 /\ dir[1].pages \in {<<PgB3Btg>>, <<PgB3Agora>>}) =>
        /\ Len(all_trades) = 1
        /\ all_trades[1].CV = <<"C">>
        /\ all_trades[1].TipoMercado = <<"V", "I", "S", "T", "A">>
        /\ all_trades[1].Titulo[1] = <<"P", "E", "T", "R", "4">>
        /\ all_trades[1].Quantidade = 100
        /\ all_trades[1].Preco = 28500
        /\ all_trades[1].Valor = 2850000
        /\ all_trades[1].DC = <<"D">>

\* C15: in the record the label-anchored extractor gives for the summary
\* "Valor das operacoes 500,00" / "Corretagem ... R$ 15,00", where no
\* letter C or D follows either amount, Corretagem is 15,00 and Valor das
\* operacoes is 500,00, both with the empty flag.
C15_NoLetterGivesEmptyFlag ==
    (/\ dir[1].pages = <<PgNoLetter>>
     /\ result.ok
     /\ IsAVistaParser(matched_parser)) =>
        /\ result.summary.vals["Corretagem"] = 15000
        /\ result.summary.flags["Corretagem"] = ""
        /\ result.summary.vals["Valor das operacoes"] = 500000
        /\ result.summary.flags["Valor das operacoes"] = ""

\* The lines of a text that hold the trade-start marker of a profile, and
\* those that hold its trade-end marker.
StartLines(broker, lines) ==
    {i \in 1..Len(lines) : IsStartMarker(broker, lines[i].txt)}

EndLines(broker, lines) ==
    {i \in 1..Len(lines) : IsEndMarker(broker, lines[i].txt)}

\* The trades read from the first start marker to the end of the text.
TradesToEndOfText(broker, lines, starts) ==
    HeaderTrades(broker,
        SubSeq(lines, CHOOSE i \in starts : \A j \in starts : i <= j,
               Len(lines)))

\* The document parsed by a spot parser, with the value parse_pdf returned.
SpotParsed == di = 2 /\ result.ok /\ IsAVistaParser(matched_parser)

\* C21 (as stated): a spot text in which the start marker or the end marker
\* of the profile does not occur gives no trade.
C21_MissingMarkerNoTrades ==
    (/\ SpotParsed
     /\ \/ StartLines(result.broker, LinesOf(dir[1].pages)) = {}
        \/ EndLines(result.broker, LinesOf(dir[1].pages)) = {}) =>
        result.trades = <<>>

\* C21 (amended): a spot text without the start marker gives no trade; a
\* text with the start marker and without the end marker gives the trades
\* of the table that follows the first start marker, the section running
\* to the end of the text; the page with the start marker, a header and
\* one trade line and no end marker gives that one trade.
C21_SectionRunsToEndOfText ==
    SpotParsed =>
        /\ StartLines(result.broker, LinesOf(dir[1].pages)) = {} =>
               result.trades = <<>>
        /\ (/\ StartLines(result.broker, LinesOf(dir[1].pages)) # {}
            /\ EndLines(result.broker, LinesOf(dir[1].pages)) = {}) =>
               result.trades =
                   TradesToEndOfText(result.broker, LinesOf(dir[1].pages),
                       StartLines(result.broker, LinesOf(dir[1].pages)))
        /\ dir[1].pages = <<PgSpotNoResumo>> =>
               /\ Len(result.trades) = 1
               /\ result.trades[1].Quantidade = 10
               /\ result.trades[1].Valor = 500000

C21_Witness ==
    /\ SpotParsed
    /\ dir[1].pages = <<PgSpotNoResumo>>
    /\ EndLines(result.broker, LinesOf(dir[1].pages)) = {}
    /\ Len(all_trades) = 1

\* A text without its k-th line.
Without(lines, k) == SubSeq(lines, 1, k - 1) \o SubSeq(lines, k + 1, Len(lines))

\* The first lines of the blocks of a spot text, from line i on.
RECURSIVE BlockStarts(_, _, _)
BlockStarts(broker, lines, i) ==
    IF i > Len(lines) THEN {}
    ELSE IF ~IsStartMarker(broker, lines[i].txt)
    THEN BlockStarts(broker, lines, i + 1)
    ELSE {i} \cup BlockStarts(broker, lines, BlockEnd(broker, lines, i) + 1)

\* Line k is read as a trade line of the block that starts at line s: it
\* lies after the table header of the block and no blank line or line
\* holding "resumo" comes before it.
ReadInBlock(broker, lines, s, h, k) ==
    /\ h # 0
    /\ s + h - 1 <= k
    /\ k <= BlockEnd(broker, lines, s)
    /\ \A j \in (s + h - 1)..k : ~IsBlank(lines[j]) /\ ~HasResumo(lines[j])

\* Line k is a line of a trade section whose parsing fails. The section of
\* a futures text is the whole text.
MalformedLine(parser_class, broker, lines, k) ==
    IF IsAVistaParser(parser_class)
    THEN /\ ~SpotTrade(broker, lines[k]).ok
         /\ \E s \in BlockStarts(broker, lines, 1) :
                ReadInBlock(broker, lines, s,
                    HeaderIdx(SubSeq(lines, s, BlockEnd(broker, lines, s))), k)
    ELSE IF parser_class = "XPBMFParser" THEN ~XpBmfTrade(lines[k]).ok
    ELSE ~BmfTrade(lines[k]).ok

DroppedAlone(parser_class, broker, lines) ==
    \A k \in 1..Len(lines) :
        MalformedLine(parser_class, broker, lines, k) =>
            result.trades = ExtractedTrades(parser_class, broker, Without(lines, k))

\* C22: the trades of a parsed document are, in the same order, those of
\* its text with any one malformed line of a trade section removed; the
\* spot table with a trade line, a line whose quantity is no integer, a
\* line of two tokens and a second trade line gives the two trades, and
\* the futures text with a malformed line between trade lines gives the
\* trade lines around it.
C22_MalformedLineDroppedAlone ==
    (di = 2 /\ result.ok) =>
        /\ DroppedAlone(matched_parser, result.broker, LinesOf(dir[1].pages))
        /\ dir[1].pages = <<PgSpotMalformed>> =>
               /\ Len(result.trades) = 2
               /\ result.trades[1].Quantidade = 10
               /\ result.trades[2].Quantidade = 20
        /\ dir[1].pages = <<PgFutXPMalformed>> =>
               /\ Len(result.trades) = 2
               /\ result.trades[1].Valor = 30000
               /\ result.trades[2].Valor = 50000

C22_Witness ==
    /\ di = 2 /\ result.ok
    /\ dir[1].pages = <<PgSpotMalformed>>
    /\ MalformedLine(matched_parser, result.broker, LinesOf(dir[1].pages), 4)
    /\ MalformedLine(matched_parser, result.broker, LinesOf(dir[1].pages), 5)
    /\ Len(all_trades) = 2

\* The summary the positional extractor returned for the document.
PositionalReturned == result.ok /\ SummaryTakesFilePath(matched_parser)

\* The record whose every value is 0 with the empty flag.
AllZeroRecord ==
    [vals  |-> [k \in KeysOf(LABEL_POSITIONS) |-> 0],
     flags |-> [k \in KeysOf(LABEL_POSITIONS) |-> ""]]

\* A page with more than four label lines.
OverFourLabelLines(page) ==
    Cardinality({i \in 1..Len(page.lines) : IsLabelLine(page.lines[i])}) > 4

\* C27 (as stated): the positional summary of a document is the one its
\* last page alone gives.
C27_LastPageAlone ==
    PositionalReturned =>
        result.summary =
            Positional_extract_summary_values(
                <<dir[1].pages[Len(dir[1].pages)]>>)

\* C27 (amended): when no page of the document has more than four label
\* lines, the positional summary is the one the last page alone gives, and
\* a key found on an earlier page and missing on the last is 0 with the
\* empty flag; when a page has more than four label lines every key is 0
\* with the empty flag, whatever the last page holds.
C27_LastPageUnlessAPageRaises ==
    PositionalReturned =>
        /\ (\A i \in 1..Len(dir[1].pages) : ~OverFourLabelLines(dir[1].pages[i]))
              => result.summary =
                    Positional_extract_summary_values(
                        <<dir[1].pages[Len(dir[1].pages)]>>)
        /\ (\E i \in 1..Len(dir[1].pages) : OverFourLabelLines(dir[1].pages[i]))
              => result.summary = AllZeroRecord
        /\ dir[1].pages = <<PgFutXP, PgFutShort>> =>
              /\ result.summary.vals["Valor dos negocios"] = 0
              /\ result.summary.flags["Valor dos negocios"] = ""

\* The note of XP whose first page declares 100,00 at "Valor dos negocios"
\* and whose last page has two numbers only in its first block.
C27_Witness ==
    /\ PositionalReturned
    /\ di = 2
    /\ dir[1].pages = <<PgFutXP, PgFutShort>>
    /\ Positional_extract_summary_values(<<PgFutXP>>).vals["Valor dos negocios"]
          = 100000
    /\ result.summary.vals["Valor dos negocios"] = 0

\* The place of a profile in the table: BTG, ITAU, AGORA, XP.
TableRank(broker) ==
    CASE broker = "BTG" -> 1
      [] broker = "ITAU" -> 2
      [] broker = "AGORA" -> 3
      [] broker = "XP" -> 4

\* The profiles of which the text of the document shows a signature.
SignaturesIn(pages) == UNION {pages[i].sigs : i \in 1..Len(pages)}

\* The document was handled by the profile that comes first in the table
\* among found: the parser is of the class of that profile and of the
\* kind of the text, and what the parse returned and every trade carry the
\* profile's name.
HandledByFirst(found, pages) ==
    \E b \in found :
        /\ \A c \in found : TableRank(b) <= TableRank(c)
        /\ matched_parser
              = ParserClass(b, classify_invoice_type(LinesOf(pages)))
        /\ result.ok => result.broker = b
        /\ \A i \in 1..Len(all_trades) : all_trades[i].broker = b
        /\ \A i \in 1..Len(all_summaries) : all_summaries[i].broker = b

\* C19: the document is handled by the first profile, in the order BTG,
\* ITAU, AGORA, XP, of which a signature is found in its text, also when
\* signatures of several profiles are found; a document with no signature
\* gets no parser and gives no trade and no summary.
C19_FirstProfileInTableOrder ==
    di = 2 =>
        IF SignaturesIn(dir[1].pages) = {}
        THEN /\ matched_parser = "None"
             /\ all_trades = <<>>
             /\ all_summaries = <<>>
        ELSE HandledByFirst(SignaturesIn(dir[1].pages), dir[1].pages)

\* A document whose first page has the signature of AGORA and whose second
\* page has the signature of BTG has given its trades under BTG.
C19_Witness ==
    /\ di = 2
    /\ dir[1].pages = <<PgB3AgoraHdr, PgSpotA>>
    /\ result.ok
    /\ result.broker = "BTG"
    /\ all_trades # <<>>

\* The canonical keys of the record kind of a parser class.
CanonicalKeys(parser_class) ==
    IF IsAVistaParser(parser_class) THEN KeysOf(RESUMO_KEY_MAP_AVISTA)
    ELSE KeysOf(RESUMO_KEY_MAP_BMF)

IsUnknown(path) ==
    classify_invoice_type(LinesOf(Content(path))) = "unknown"

\* The invoice numbers of the documents of the batch that are readable
\* and do not classify as unknown.
KnownInvoices ==
    {DocInvoice(Content(files_to_process[j])) :
        j \in {n \in 1..Len(files_to_process) :
                  /\ Opens(files_to_process[n])
                  /\ ~IsUnknown(files_to_process[n])}}

\* C23: the summary row appended for a document carries the kind, the
\* invoice and the brokerage of that document, whatever was processed
\* before it: "A Vista" when its parser is a spot parser, "BM&F" when it is
\* a futures parser.
C23_SummaryRowOfItsDocument ==
    [][Len(all_summaries') = Len(all_summaries) + 1 =>
          /\ all_summaries'[Len(all_summaries')].Tipo =
                 (IF IsAVistaParser(matched_parser') THEN "A Vista" ELSE "BM&F")
          /\ all_summaries'[Len(all_summaries')].invoice = result'.invoice
          /\ all_summaries'[Len(all_summaries')].broker = result'.broker]_vars

\* The documents process_pdfs hands to the generic BMFParser: a signature
\* is found and the text classifies as unknown, or as futures for ITAU or
\* AGORA, which have no registered futures class.
RoutedToGeneric(pages) ==
    /\ FirstBroker(pages) # ""
    /\ \/ classify_invoice_type(LinesOf(pages)) = "unknown"
       \/ /\ classify_invoice_type(LinesOf(pages)) = "bmf"
          /\ FirstBroker(pages) \in {"ITAU", "AGORA"}

\* C26: the turn of process_pdfs for a document routed to the generic
\* BMFParser builds a BMFParser whose parse_pdf raises; the error is caught
\* for the document, which adds no trade and no summary, and the loop goes
\* on.
C26_GenericFuturesParserRaises ==
    [][(/\ pc = "PerDocument"
        /\ di' = di + 1
        /\ Opens(files_to_process[di])
        /\ RoutedToGeneric(Content(files_to_process[di])))
       => /\ matched_parser' = "BMFParser"
          /\ ~result'.ok
          /\ all_trades' = all_trades
          /\ all_summaries' = all_summaries
          /\ pc' \in {"PerDocument", "Aggregating"}]_vars

\* A futures document of ITAU with trade lines of the futures layout,
\* after its turn: nothing was added and the loop is over.
C26_Witness ==
    /\ di = 2
    /\ pc = "Aggregating"
    /\ FirstBroker(dir[1].pages) = "ITAU"
    /\ classify_invoice_type(LinesOf(dir[1].pages)) = "bmf"
    /\ BMFParser_extract_trades(LinesOf(dir[1].pages)) # <<>>
    /\ matched_parser = "BMFParser"
    /\ all_trades = <<>>
    /\ all_summaries = <<>>

\* The document of a path opens, matches a profile and its parser returns.
ParserReturns(path) ==
    /\ Opens(path)
    /\ MatchParser(Content(path)).class # "None"
    /\ parse_pdf(MatchParser(Content(path)).class,
                 MatchParser(Content(path)).broker, Content(path)).ok

\* C24: the turn of process_pdfs for a document that matches a profile and
\* whose parser returns appends exactly one row to the summaries, with or
\* without trades and wherever the document stands in the batch.
C24_OneSummaryRowPerDocument ==
    [][(/\ pc = "PerDocument"
        /\ di' = di + 1
        /\ ParserReturns(files_to_process[di])) =>
            Len(all_summaries') = Len(all_summaries) + 1]_vars

\* C6: the turn of process_pdfs for a document that classifies as unknown
\* appends nothing to the trades and to the summaries and goes on to the
\* next document, whichever signature the document matches; and every row
\* of the trades, of the summaries and of the consistency table carries
\* the invoice number of a document that does not classify as unknown.
C6_UnknownContributesNothing ==
    /\ [][(/\ pc = "PerDocument"
           /\ di' = di + 1
           /\ Opens(files_to_process[di])
           /\ IsUnknown(files_to_process[di]))
          => /\ all_trades' = all_trades
             /\ all_summaries' = all_summaries
             /\ pc' \in {"PerDocument", "Aggregating"}]_vars
    /\ [](pc \in {"Aggregating", "Reconciling", "Done"} =>
            /\ \A i \in 1..Len(all_trades) :
                   all_trades[i].invoice \in KnownInvoices
            /\ \A i \in 1..Len(all_summaries) :
                   all_summaries[i].invoice \in KnownInvoices
            /\ \A i \in 1..Len(df_consistency) :
                   df_consistency[i].invoice \in KnownInvoices)

\* A finished batch with a document that matches a signature and
\* classifies as unknown, and another document that gave a consistency row.
C6_Witness ==
    /\ pc = "Done"
    /\ df_consistency # <<>>
    /\ \E j \in 1..Len(files_to_process) :
          /\ IsUnknown(files_to_process[j])
          /\ MatchParser(Content(files_to_process[j])).class = "BMFParser"
          /\ BMFParser_extract_trades(LinesOf(Content(files_to_process[j]))) # <<>>

\* C7: no error raised while one document is handled ends the call of
\* process_directory: the call never ends with an exception.
C7_NoDocumentErrorAbortsBatch == pc # "Aborted"

\* C8: the second of two calls of process_directory on the unchanged
\* directory ends as the first one did, with the same trades, summaries
\* and consistency table, whatever the first call left in the split
\* directory.
C8_SecondRunSameResult ==
    (run = 2 /\ pc \in {"Done", "Aborted"}) =>
        first = [pc |-> pc, df_trades |-> df_trades,
                 df_summary |-> df_summary,
                 df_consistency |-> df_consistency]

\* A second call that ends over the split files the first call left, with
\* a consistency table.
C8_Witness ==
    /\ run = 2
    /\ pc = "Done"
    /\ DOMAIN split_by_date_temp # {}
    /\ \E j \in 1..Len(files_to_process) :
          files_to_process[j].dir = "split_by_date_temp"
    /\ df_consistency # <<>>
    /\ first.df_consistency = df_consistency

\* ------------------------------------------------------------------------
\* Properties of the splitter
\* ------------------------------------------------------------------------

\* The date and the kind each page of the split file shows.
Tags ==
    [i \in 1..Len(dir[1].pages) |->
        <<dir[1].pages[i].date, classify_invoice_type(dir[1].pages[i].lines)>>]

\* The retained pages: a date and a known kind.
Retained(tags) ==
    {i \in DOMAIN tags : tags[i][1] # NoDate /\ tags[i][2] # "unknown"}

\* The retained pages that begin a maximal run of equal (date, kind).
RunStarts(tags, kept) ==
    {i \in kept :
        \/ \A j \in kept : j >= i
        \/ \E j \in kept :
              /\ j < i
              /\ \A h \in kept : ~(j < h /\ h < i)
              /\ tags[j] # tags[i]}

\* The pages of the n-th run from page i on, in page order.
RECURSIVE RunPages(_, _, _, _)
RunPages(kept, starts, n, i) ==
    IF i > Len(dir[1].pages) THEN <<>>
    ELSE (IF i \in kept /\ Cardinality({x \in starts : x <= i}) = n
          THEN <<dir[1].pages[i]>> ELSE <<>>)
         \o RunPages(kept, starts, n, i + 1)

\* The n-th path returned for the split file is a file of the split
\* directory that holds exactly the pages of the n-th run.
HoldsRun(kept, starts, n) ==
    /\ files_to_process[n].dir = "split_by_date_temp"
    /\ files_to_process[n].name \in DOMAIN split_by_date_temp
    /\ split_by_date_temp[files_to_process[n].name]
          = RunPages(kept, starts, n, 1)

\* The paths returned are one per run, the n-th holding the n-th run.
OnePerRun(kept, starts) ==
    /\ Len(files_to_process) = Cardinality(starts)
    /\ \A n \in 1..Cardinality(starts) : HoldsRun(kept, starts, n)

\* The runs are two or more and their keys differ pairwise.
DistinctRuns(tags, starts) ==
    /\ Cardinality(starts) >= 2
    /\ \A a, b \in starts : a # b => tags[a] # tags[b]

SplitByRuns(tags, kept) ==
    DistinctRuns(tags, RunStarts(tags, kept))
        => OnePerRun(kept, RunStarts(tags, kept))

\* The pages of the groups from the g-th on, one after the other.
RECURSIVE GroupedPages(_, _)
GroupedPages(groups, g) ==
    IF g > Len(groups) THEN <<>>
    ELSE groups[g].pages \o GroupedPages(groups, g + 1)

\* The groups are the maximal runs of equal key over the retained pages:
\* together they hold the retained pages once each in page order, every
\* page of a group has the group's key, and a group's key differs from
\* the key of the group before it.
AreMaximalRuns(groups, tags) ==
    /\ GroupedPages(groups, 1)
          = SelectSeq([i \in 1..Len(tags) |-> i],
                      LAMBDA i : i \in Retained(tags))
    /\ \A g \in 1..Len(groups) :
          /\ groups[g].pages # <<>>
          /\ \A k \in 1..Len(groups[g].pages) :
                tags[groups[g].pages[k]] = groups[g].key
    /\ \A g \in 2..Len(groups) : groups[g].key # groups[g - 1].key

\* C16: group_pages_by_date_and_type drops the pages without a date or of
\* unknown kind and returns the maximal runs of equal (date, kind) over
\* the pages left, in page order; a key that comes back after another key
\* begins a new group.
C16_GroupsAreMaximalRuns ==
    pc = "PerDocument" =>
        AreMaximalRuns(group_pages_by_date_and_type(Tags), Tags)

\* Pages D1 spot, undated, D1 futures, D1 spot: the undated page is
\* dropped and the key (D1, spot) forms the first and the third group.
C16_Witness ==
    /\ pc = "PerDocument"
    /\ Tags = <<<<1, "avista">>, <<NoDate, "avista">>, <<1, "bmf">>,
                <<1, "avista">>>>
    /\ Len(files_to_process) = 3
    /\ group_pages_by_date_and_type(Tags)
          = <<[key |-> <<1, "avista">>, pages |-> <<1>>],
              [key |-> <<1, "bmf">>, pages |-> <<3>>],
              [key |-> <<1, "avista">>, pages |-> <<4>>]>>

\* The places (group, position) at which page i stands in the groups.
PlacesOf(groups, i) ==
    {gk \in (1..Len(groups)) \X (1..Len(dir[1].pages)) :
        /\ gk[2] <= Len(groups[gk[1]].pages)
        /\ groups[gk[1]].pages[gk[2]] = i}

\* The groups partition the retained pages, in increasing page order.
PartitionRetained(groups, tags) ==
    /\ \A i \in Retained(tags) : Cardinality(PlacesOf(groups, i)) = 1
    /\ \A i \in (DOMAIN tags) \ Retained(tags) : PlacesOf(groups, i) = {}
    /\ \A g \in 1..Len(groups) :
          /\ groups[g].pages # <<>>
          /\ \A k \in 1..Len(groups[g].pages) :
                groups[g].pages[k] \in DOMAIN tags
          /\ \A k \in 2..Len(groups[g].pages) :
                groups[g].pages[k - 1] < groups[g].pages[k]
    /\ \A g \in 2..Len(groups) :
          /\ groups[g - 1].pages[Len(groups[g - 1].pages)] < groups[g].pages[1]
          /\ groups[g - 1].key # groups[g].key

\* C25: the groups of group_pages_by_date_and_type partition the retained
\* pages: each page with a date and a known kind stands in exactly one
\* group, no dropped page stands in any, page indexes increase strictly
\* within a group and from a group to the next, no group is empty and two
\* consecutive groups never have the same key.
C25_GroupsPartitionRetained ==
    pc = "PerDocument" =>
        PartitionRetained(group_pages_by_date_and_type(Tags), Tags)

\* Pages D1 spot, D1 spot, D1 of unknown kind, D2 spot: the third page is
\* dropped, the first two form one group and the fourth another.
C25_Witness ==
    /\ pc = "PerDocument"
    /\ Tags = <<<<1, "avista">>, <<1, "avista">>, <<1, "unknown">>,
                <<2, "avista">>>>
    /\ group_pages_by_date_and_type(Tags)
          = <<[key |-> <<1, "avista">>, pages |-> <<1, 2>>],
              [key |-> <<2, "avista">>, pages |-> <<4>>]>>

\* The steps from one stage to another that the order Idle, Splitting,
\* PerDocument (matching, classifying, extracting trades, extracting the
\* summary), Aggregating, Reconciling, Done allows, with the ends of a
\* call that has no file or that raises.
StageSteps ==
    {<<"Idle", "Splitting">>, <<"Idle", "Done">>,
     <<"Splitting", "PerDocument">>, <<"Splitting", "Aborted">>,
     <<"PerDocument", "Classifying">>, <<"PerDocument", "Aggregating">>,
     <<"Classifying", "ExtractingTrades">>,
     <<"ExtractingTrades", "ExtractingSummary">>,
     <<"ExtractingSummary", "PerDocument">>,
     <<"ExtractingSummary", "Aggregating">>,
     <<"Aggregating", "Reconciling">>,
     <<"Reconciling", "Done">>, <<"Reconciling", "Aborted">>}

InDocument == {"Classifying", "ExtractingTrades", "ExtractingSummary"}

\* C20: the stages of a call follow one another in the order Idle,
\* Splitting, PerDocument, Aggregating, Reconciling, Done; no document is
\* handled before every file is split; for a document the matching comes
\* before the classification, that before the extraction of the trades
\* and that before the extraction of the summary, all for the same
\* document; and the aggregation and the reconciliation come after the
\* last document was handled or skipped.
C20_StagesInOrder ==
    /\ [][/\ pc' # pc => <<pc, pc'>> \in StageSteps
          /\ pc' \in InDocument => di' = di
          /\ di' \in {di, di + 1}]_vars
    /\ [](pc \in InDocument \cup {"PerDocument", "Aggregating", "Reconciling"}
             => fi > Len(dir))
    /\ [](pc \in InDocument \cup {"PerDocument"}
             => di <= Len(files_to_process))
    /\ [](pc \in {"Aggregating", "Reconciling"}
             => di > Len(files_to_process))

\* A call is done that handled two documents and found trades.
C20_Witness ==
    /\ pc = "Done"
    /\ Len(files_to_process) = 2
    /\ di = 3
    /\ all_trades # <<>>
    /\ df_consistency # <<>>

\* The text of the page of the classification runs and its phrases.
TextOf == dir[1].pages[1].lines

HasSpotPhrase(normalized) ==
    {"negocios realizados", "resumo dos negocios", "negocios efetuados"}
        \cap normalized # {}

FiveTerms ==
    {"ajuste day trade", "taxa registro bmf", "irrf day trade",
     "vencimento", "c/v mercadoria"}

\* C17, as stated: the text is classified spot exactly when it holds a
\* spot phrase and none of the five futures-only phrases.
C17_SpotIffNoFuturesPhrase ==
    pc = "PerDocument" =>
        (classify_invoice_type(TextOf) = "avista"
            <=> /\ HasSpotPhrase(TextPhrases(TextOf))
                /\ FiveTerms \cap TextPhrases(TextOf) = {})

\* C17, amended: the text is classified spot exactly when it holds a spot
\* phrase and does not hold "c/v mercadoria"; the other futures phrases
\* do not keep a text with a spot phrase from being spot.
C17_SpotIffNoMercadoria ==
    pc = "PerDocument" =>
        (classify_invoice_type(TextOf) = "avista"
            <=> /\ HasSpotPhrase(TextPhrases(TextOf))
                /\ "c/v mercadoria" \notin TextPhrases(TextOf))

\* A text with a spot phrase and "vencimento", classified spot, has been
\* through the splitter.
C17_Witness ==
    /\ pc = "PerDocument"
    /\ "resumo dos negocios" \in TextPhrases(TextOf)
    /\ "vencimento" \in TextPhrases(TextOf)
    /\ classify_invoice_type(TextOf) = "avista"

\* C18, as stated: a text without a spot phrase, without both
\* "c/v mercadoria vencimento" and "ajuste de posicao", and with none of
\* the five fallback terms is unknown, and a text that is futures without
\* both of those phrases holds one of the five terms.
C18_UnknownWithoutFiveTerms ==
    pc = "PerDocument" =>
        /\ (/\ ~HasSpotPhrase(TextPhrases(TextOf))
            /\ ~({"c/v mercadoria vencimento", "ajuste de posicao"}
                     \subseteq TextPhrases(TextOf))
            /\ FiveTerms \cap TextPhrases(TextOf) = {})
           => classify_invoice_type(TextOf) = "unknown"
        /\ (/\ classify_invoice_type(TextOf) = "bmf"
            /\ ~({"c/v mercadoria vencimento", "ajuste de posicao"}
                     \subseteq TextPhrases(TextOf)))
           => FiveTerms \cap TextPhrases(TextOf) # {}

\* C18, amended: the fallback terms are six, the five and "ajuste de
\* posicao": a text without a spot phrase and with none of the six is
\* unknown, every unknown text has none of the six, and a text that is
\* futures holds one of the six.
C18_UnknownWithoutSixTerms ==
    pc = "PerDocument" =>
        /\ (/\ ~HasSpotPhrase(TextPhrases(TextOf))
            /\ (FiveTerms \cup {"ajuste de posicao"})
                   \cap TextPhrases(TextOf) = {})
           => classify_invoice_type(TextOf) = "unknown"
        /\ classify_invoice_type(TextOf) = "unknown"
           => (FiveTerms \cup {"ajuste de posicao"})
                 \cap TextPhrases(TextOf) = {}
        /\ classify_invoice_type(TextOf) = "bmf"
           => (FiveTerms \cup {"ajuste de posicao"})
                 \cap TextPhrases(TextOf) # {}

\* A text whose only phrase is "ajuste de posicao", classified futures,
\* has been through the splitter.
C18_Witness ==
    /\ pc = "PerDocument"
    /\ TextPhrases(TextOf) = {"ajuste de posicao"}
    /\ classify_invoice_type(TextOf) = "bmf"

\* C13: once a call of process_directory has ended, with its result or
\* with an exception, no file that the splitter wrote is left in the
\* split directory.
C13_NoSplitFileRemains ==
    pc \in {"Done", "Aborted"} => DOMAIN split_by_date_temp = {}

\* C9: for a file whose retained pages form k >= 2 maximal runs of equal
\* (date, kind) with pairwise different keys, prepare_files_for_processing
\* yields exactly k sub-documents, the i-th holding exactly the pages of
\* the i-th run in page order.
C9_OneSubDocumentPerRun ==
    pc = "PerDocument" => SplitByRuns(Tags, Retained(Tags))

\* Pages dated D1, D1, D2, D2, all spot: two sub-documents of the two
\* pages of each date, in page order.
C9_Witness ==
    /\ pc = "PerDocument"
    /\ Len(dir[1].pages) = 4
    /\ Tags = <<<<1, "avista">>, <<1, "avista">>,
                <<2, "avista">>, <<2, "avista">>>>
    /\ Len(files_to_process) = 2
    /\ split_by_date_temp[files_to_process[1].name]
          = SubSeq(dir[1].pages, 1, 2)
    /\ split_by_date_temp[files_to_process[2].name]
          = SubSeq(dir[1].pages, 3, 4)

\* The distinct paths returned are as many as the groups, and every path
\* returned holds the pages of its group.
FilePerGroup(kept, starts) ==
    /\ Cardinality({files_to_process[n] : n \in 1..Len(files_to_process)})
          = Cardinality(starts)
    /\ \A n \in 1..Len(files_to_process) : HoldsRun(kept, starts, n)

\* C10: for a file with more than one distinct (date, kind) key, the
\* distinct files returned are as many as the groups and each holds
\* exactly the pages of its group, also when a key occurs in two groups
\* that are not contiguous.
C10_OneFilePerGroup ==
    (/\ pc = "PerDocument"
     /\ Cardinality({Tags[i] : i \in Retained(Tags)}) > 1)
    => FilePerGroup(Retained(Tags), RunStarts(Tags, Retained(Tags)))


\* ------------------------------------------------------------------------
\* Properties of the web application
\* ------------------------------------------------------------------------

\* The background tasks run to their end: a started thread is scheduled
\* until it returns.
AppLiveSpec == AppSpec /\ WF_vars(TaskProcess) /\ WF_vars(TaskFinish)

\* The step is the sending of the workbook to user u.
SendsTo(u) == downloads[u].pc = "none" /\ downloads'[u].pc = "sent"

\* The step is the clean-up of the download of user u.
CleansFor(u) == downloads[u].pc = "sent" /\ downloads'[u].pc = "none"

\* A workbook written by the batch of a request of user u from files that
\* requests of u saved.
OwnWorkbook(u, w) ==
    /\ requests[w.req].user = u
    /\ \A f \in w.batch : f[2] # 0 /\ requests[f[2]].user = u

\* The batch of request r is still processing, or it gave a workbook.
StillNeeded(r) == requests[r].pc # "finished" \/ requests[r].df # {}

\* C28: a user whose status is "ready" and who calls /download receives
\* the workbook generated from that user's own batch, and the clean-up of
\* a user's download removes no file of another user's batch that is
\* still processing or not yet downloaded.
C28_DownloadIsOwnBatch ==
    /\ [][\A u \in Users :
            (SendsTo(u) /\ check_status(u) = "ready") =>
                OwnWorkbook(u, upload_folder[generated_file])]_vars
    /\ [][\A u \in Users :
            CleansFor(u) =>
                \A n \in (DOMAIN upload_folder) \ (DOMAIN upload_folder') :
                    \/ upload_folder[n].req = 0
                    \/ requests[upload_folder[n].req].user = u
                    \/ ~StillNeeded(upload_folder[n].req)]_vars

\* The step ends the background task of request r.
Finishes(r) ==
    /\ r <= Len(requests)
    /\ requests[r].pc # "finished"
    /\ requests'[r].pc = "finished"

\* C29: an upload POST sets the status of its user to "processing" when
\* it starts the background task; every background task ends, setting the
\* status of its user to "ready" or to "error"; the status becomes "ready"
\* only at the end of a task whose call of process_directory returned a
\* table with trades; and it becomes "idle" again only by a download of
\* that user whose clean-up succeeded.
C29_StatusLifeCycle ==
    /\ [][Len(requests') > Len(requests) =>
            /\ requests'[Len(requests')].pc = "running"
            /\ processing_status'[requests'[Len(requests')].user] = "processing"]_vars
    /\ \A r \in 1..MaxUploads :
          (Len(requests) >= r) ~> (Len(requests) >= r /\ requests[r].pc = "finished")
    /\ [][\A r \in 1..MaxUploads :
            Finishes(r) =>
                processing_status'[requests[r].user] \in {"ready", "error"}]_vars
    /\ [][\A u \in Users :
            (check_status(u) # "ready" /\ check_status(u)' = "ready") =>
                \E r \in 1..Len(requests) :
                    /\ Finishes(r)
                    /\ requests[r].user = u
                    /\ requests[r].pc = "returned"
                    /\ requests[r].df # {}]_vars
    /\ [][\A u \in Users :
            (/\ u \in DOMAIN processing_status
             /\ processing_status[u] # "idle"
             /\ processing_status'[u] = "idle") =>
                /\ CleansFor(u)
                /\ downloads[u].name \in DOMAIN upload_folder
                /\ upload_folder' = NoFiles]_vars

\* Both users have uploaded; the task of one ended "ready", the task of
\* the other ended "error", and the first user has downloaded: that
\* user's status is "idle" again.
C29_Witness ==
    /\ Len(requests) = 2
    /\ requests[1].user = "u1" /\ requests[2].user = "u2"
    /\ requests[1].pc = "finished" /\ requests[1].df # {}
    /\ requests[2].pc = "finished" /\ requests[2].df = {}
    /\ processing_status = [u \in Users |-> IF u = "u1" THEN "idle" ELSE "error"]

\* C30: the batch of an upload request reads only PDF files that the
\* request saved, and only those give the trades of its table.
C30_BatchIsOwnFiles ==
    \A r \in 1..Len(requests) :
        \A f \in requests[r].pdf_files \cup requests[r].df : f[2] = r

====
